---- MODULE Spec2Model ----
(***************************************************************************)
(* A model of hashvatar: the seed generator (fnv1a, seededRng,             *)
(* hashToSeeds), the tone parser and colour deriver (parseTone,            *)
(* generateColor, hashToColors), the dither renderer's static draw and     *)
(* the frame-loop life cycle of both renderers and of the public wrappers  *)
(* (renderHashvatar, createHashvatar).                                     *)
(*                                                                         *)
(* Strings are sequences of characters; a character is a one-character     *)
(* string, or a name such as "TAB" or "U+017F" for a character outside     *)
(* printable ASCII.  A 32-bit word is a record [hi, lo] of 16-bit halves,  *)
(* its value hi * 65536 + lo; hi is negative for a negative int32.         *)
(***************************************************************************)
EXTENDS Integers, Sequences, FiniteSets, TLC

VARIABLES
    \* ---- seed generator (SpecSeeds) ----
    input,        \* the string handed to hashToSeeds
    variant,      \* a string obtained from input by edits of whitespace and case
    edits,        \* the kinds of edit applied to variant so far
    count,        \* the count handed to hashToSeeds
    rngS,         \* the state s of the last seededRng closure, or None
    calls,        \* the results of the calls made so far, by call site
    digest        \* fnv1a(input) called directly, or Pending

VARIABLES
    \* ---- execution environment ----
    hasDocument   \* TRUE in a browser (document and canvas exist), FALSE elsewhere

VARIABLES
    \* ---- tone parser (SpecTone) ----
    token,        \* the token handed to parseTone
    bare,         \* parseTone(token), or Pending
    prefixed      \* parseTone("#" + token), or Pending

VARIABLES
    \* ---- colour deriver (SpecColor) ----
    chash,        \* the hash handed to hashToColors
    tones,        \* the tone list handed to hashToColors, or None
    cleaned,      \* tones with the unparsable tokens removed by the caller, or Pending
    colorCount,   \* the count handed to hashToColors
    palette,      \* the results of hashToColors, by call site
    gen           \* the last direct call of generateColor: [args, out], or Pending

VARIABLES
    \* ---- static dither render (SpecDither) ----
    dither,            \* the options handed to renderDither
    devicePixelRatio,  \* window.devicePixelRatio, 0 without a window
    canvas,            \* the canvas handed to renderDither
    ditherRet          \* what renderDither returned, or Pending

VARIABLES
    \* ---- frame loop (Spec) ----
    renders,           \* the render calls made so far, each with its closure state
    callbacks,         \* the browser's list of animation-frame callbacks
    nextRaf,           \* the handle the next requestAnimationFrame returns
    now,               \* the timestamp of the current frame, in ms
    surfaces,          \* the canvases: size, and whose draw at which phase they show
    filterSupported,   \* _filterSupported of gradient.ts: None, or Some(answer)
    filterCapable,     \* whether the browser's ctx.filter blurs
    fault              \* TRUE once a call has thrown

VARIABLES
    \* ---- React binding (SpecReact) ----
    component          \* the Hashvatar component: its props and its effect

seedVars == <<input, variant, edits, count, rngS, calls, digest>>
toneVars == <<token, bare, prefixed>>
colorVars == <<chash, tones, cleaned, colorCount, palette, gen>>
ditherVars == <<dither, devicePixelRatio, canvas, ditherRet>>
lifeVars == <<renders, callbacks, nextRaf, now, surfaces, filterSupported, filterCapable, fault>>

vars == <<seedVars, hasDocument, toneVars, colorVars, ditherVars, lifeVars, component>>

\* the variables the frame loop leaves alone
notLife == <<seedVars, hasDocument, toneVars, colorVars, ditherVars, component>>

\* ------------------------------------------------------------------------
\* Bounds of the model
\* ------------------------------------------------------------------------
MaxLen == 2          \* longest input string of SpecSeeds
MaxCount == 2        \* largest count handed to hashToSeeds
MaxEdits == 1        \* edits applied to the variant string

\* an optional value (T | null | undefined): None, or Some(v)
None == [some |-> FALSE, val |-> <<>>]

Some(v) == [some |-> TRUE, val |-> v]

OptEq(x, y) == x.some = y.some /\ (x.some => x.val = y.val)

\* a result variable: Pending before the call that sets it, Done(v) after
Pending == [done |-> FALSE, val |-> <<>>]

Done(v) == [done |-> TRUE, val |-> v]

\* ------------------------------------------------------------------------
\* The variables of a specification that does not use them, at rest
\* ------------------------------------------------------------------------
CallSites == {"first", "again", "variant"}

PaletteSites == {"given", "cleaned"}

IdleSeeds ==
    /\ input = <<>> /\ variant = <<>> /\ edits = <<>> /\ count = 0
    /\ rngS = None /\ calls = [c \in CallSites |-> Pending]
    /\ digest = Pending

IdleTone == token = <<>> /\ bare = Pending /\ prefixed = Pending

IdleColor ==
    /\ chash = <<>> /\ tones = None /\ cleaned = Pending /\ colorCount = 0
    /\ palette = [site \in PaletteSites |-> Pending] /\ gen = Pending

IdleDither ==
    /\ dither = <<>> /\ devicePixelRatio = 0
    /\ canvas = [width |-> 0, height |-> 0, css |-> 0, data |-> <<>>]
    /\ ditherRet = Pending

\* the option values a Hashvatar element is given when none is rendered
NoProps ==
    [hash |-> <<>>, size |-> 0, mode |-> "gradient", animated |-> FALSE,
     dotScale |-> <<>>, tones |-> <<>>]

\* no Hashvatar element has been rendered
NoComponent ==
    [stage |-> "none", props |-> NoProps, deps |-> <<>>, pending |-> "none",
     cleanup |-> None, commits |-> 0]

IdleLife ==
    /\ renders = <<>> /\ callbacks = {} /\ nextRaf = 1 /\ now = 0
    /\ surfaces = <<>> /\ filterSupported = None /\ filterCapable = FALSE
    /\ fault = FALSE
    /\ component = NoComponent

\* ------------------------------------------------------------------------
\* 32-bit arithmetic on 16-bit halves
\* ------------------------------------------------------------------------
W16 == 65536

\* F(v) with v evaluated once (a `const x = v` of the code)
With(v, F(_)) == CHOOSE r \in {F(x) : x \in {v}} : TRUE

Word(h, l) == [hi |-> h, lo |-> l]

RECURSIVE BitXor(_, _, _)
BitXor(a, b, n) ==
    IF n = 0 THEN 0
    ELSE (((a % 2) + (b % 2)) % 2) + 2 * BitXor(a \div 2, b \div 2, n - 1)

RECURSIVE BitOr(_, _, _)
BitOr(a, b, n) ==
    IF n = 0 THEN 0
    ELSE (IF a % 2 = 1 \/ b % 2 = 1 THEN 1 ELSE 0) + 2 * BitOr(a \div 2, b \div 2, n - 1)

RECURSIVE Pow2(_)
Pow2(n) == IF n = 0 THEN 1 ELSE 2 * Pow2(n - 1)

\* ToUint32: the bit pattern of a number, hi in 0..65535 (JS `x >>> 0`)
ToUint32(x) == Word(x.hi % W16, x.lo)

\* ToInt32: the same bits read as a signed int32 (JS `x | 0`)
ToInt32(x) ==
    LET h == x.hi % W16 IN Word(IF h >= 32768 THEN h - W16 ELSE h, x.lo)

\* a ^ b on int32 operands: the result is an int32
Xor32(a, b) ==
    ToInt32(Word(BitXor(a.hi % W16, b.hi % W16, 16), BitXor(a.lo, b.lo, 16)))

\* a | b on int32 operands
Or32(a, b) ==
    ToInt32(Word(BitOr(a.hi % W16, b.hi % W16, 16), BitOr(a.lo, b.lo, 16)))

\* a >>> n for 0 < n < 16: a uint32
Shr32(a, n) ==
    LET h == a.hi % W16
        p == Pow2(n)
    IN  Word(h \div p, (a.lo \div p) + (h % p) * Pow2(16 - n))

\* (a + b) wrapped to 32 bits, as an int32 (JS `(a + b) | 0`)
Add32(a, b) ==
    LET l == a.lo + b.lo
        h == (a.hi % W16) + (b.hi % W16) + (l \div W16)
    IN  ToInt32(Word(h % W16, l % W16))

\* the 32-bit product of two 16-bit numbers, as <<high half, low half>>
Mul16(a, b) ==
    LET x == a * (b % 256)
        y == a * (b \div 256)
        s == x + (y % 256) * 256
    IN  <<(y \div 256) + (s \div W16), s % W16>>

\* Math.imul(a, b): the low 32 bits of the product, as an int32
Imul(a, b) ==
    LET ah == a.hi % W16
        bh == b.hi % W16
        ll == Mul16(a.lo, b.lo)
        cross == (Mul16(ah, b.lo)[2] + Mul16(a.lo, bh)[2] + ll[1]) % W16
    IN  ToInt32(Word(cross, ll[2]))

\* ------------------------------------------------------------------------
\* Characters and strings
\* ------------------------------------------------------------------------
Digits == <<"0", "1", "2", "3", "4", "5", "6", "7", "8", "9">>

Uppers == <<"A", "B", "C", "D", "E", "F", "G", "H", "I", "J", "K", "L", "M",
            "N", "O", "P", "Q", "R", "S", "T", "U", "V", "W", "X", "Y", "Z">>

Lowers == <<"a", "b", "c", "d", "e", "f", "g", "h", "i", "j", "k", "l", "m",
            "n", "o", "p", "q", "r", "s", "t", "u", "v", "w", "x", "y", "z">>

\* the other characters the model knows, with their codes
Named == <<<<"TAB", 9>>, <<"LF", 10>>, <<" ", 32>>, <<"\"", 34>>, <<"#", 35>>,
           <<"%", 37>>, <<"(", 40>>, <<")", 41>>, <<",", 44>>, <<"-", 45>>,
           <<".", 46>>, <<"\\", 92>>, <<"NBSP", 160>>, <<"U+00C9", 201>>, <<"U+00E9", 233>>, <<"U+017F", 383>>>>

Run(chars, base) ==
    [c \in {chars[i] : i \in 1..Len(chars)} |->
        (CHOOSE i \in 1..Len(chars) : chars[i] = c) + base - 1]

CodeTable ==
    Run(Digits, 48) @@ Run(Uppers, 65) @@ Run(Lowers, 97)
    @@ [c \in {Named[i][1] : i \in 1..Len(Named)} |->
            Named[CHOOSE i \in 1..Len(Named) : Named[i][1] = c][2]]

\* String.prototype.charCodeAt on one character
charCodeAt(c) == CodeTable[c]

CharOf(code) == CHOOSE c \in DOMAIN CodeTable : CodeTable[c] = code

IsUpperAscii(c) == charCodeAt(c) \in 65..90
IsLowerAscii(c) == charCodeAt(c) \in 97..122
IsDigit(c) == charCodeAt(c) \in 48..57

\* String.prototype.toLowerCase on one character (each character of the model
\* lowercases to one character)
LowerChar(c) ==
    IF IsUpperAscii(c) THEN CharOf(charCodeAt(c) + 32)
    ELSE IF c = "U+00C9" THEN "U+00E9"
    ELSE c

\* String.prototype.toUpperCase on one character; U+017F (long s) has the
\* capital S as its upper case
UpperChar(c) ==
    IF IsLowerAscii(c) THEN CharOf(charCodeAt(c) - 32)
    ELSE IF c = "U+00E9" THEN "U+00C9"
    ELSE IF c = "U+017F" THEN "S"
    ELSE c

toLowerCase(s) == [i \in 1..Len(s) |-> LowerChar(s[i])]

\* the WhiteSpace and LineTerminator characters String.prototype.trim strips
WhiteSpace == {" ", "TAB", "LF", "NBSP"}

RECURSIVE TrimStart(_)
TrimStart(s) ==
    IF s # <<>> /\ Head(s) \in WhiteSpace THEN TrimStart(Tail(s)) ELSE s

RECURSIVE TrimEnd(_)
TrimEnd(s) ==
    IF s # <<>> /\ s[Len(s)] \in WhiteSpace THEN TrimEnd(SubSeq(s, 1, Len(s) - 1)) ELSE s

trim(s) == TrimEnd(TrimStart(s))

\* ------------------------------------------------------------------------
\* fnv1a (dither.ts 134-142): the multiplication is a double multiplication,
\* rounded to 53 significant bits before `>>> 0` wraps it.
\* ------------------------------------------------------------------------
FnvOffset == Word(33052, 40389)      \* 0x811c9dc5

\* |h| for an int32 h, as unsigned halves (hi <= 32768)
Magnitude(h) ==
    IF h.hi >= 0 THEN Word(h.hi, h.lo)
    ELSE IF h.lo = 0 THEN Word(0 - h.hi, 0)
    ELSE Word(0 - h.hi - 1, W16 - h.lo)

\* the exact product m * 0x01000193 (= m * 2^24 + m * 403) in 16-bit limbs,
\* least significant first
FnvProduct(m) ==
    LET s0 == m.lo * 403
        s1 == m.hi * 403 + m.lo * 256 + (s0 \div W16)
        s2 == m.hi * 256 + (s1 \div W16)
    IN  <<s0 % W16, s1 % W16, s2 % W16, s2 \div W16>>

\* the number of low bits a double drops from a product of that size
DroppedBits(limbs) ==
    IF limbs[4] < 32 THEN 0
    ELSE IF limbs[4] < 64 THEN 1
    ELSE IF limbs[4] < 128 THEN 2
    ELSE 3

\* the low 32 bits of the product rounded to nearest, ties to even
RoundedLow32(limbs) ==
    LET k == DroppedBits(limbs)
        q == Pow2(k)
        r == limbs[1] % q
        up == k > 0 /\ (2 * r > q \/ (2 * r = q /\ (limbs[1] \div q) % 2 = 1))
        l == limbs[1] - r + (IF up THEN q ELSE 0)
    IN  Word((limbs[2] + (l \div W16)) % W16, l % W16)

\* -(w) wrapped to 32 bits
Negate32(w) ==
    IF w.lo = 0 THEN Word((W16 - w.hi) % W16, 0)
    ELSE Word(W16 - 1 - w.hi, W16 - w.lo)

\* (hash * 0x01000193) >>> 0 for an int32 hash
MulPrime(h) ==
    With(FnvProduct(Magnitude(h)),
         LAMBDA limbs : IF h.hi < 0 THEN Negate32(RoundedLow32(limbs)) ELSE RoundedLow32(limbs))

RECURSIVE FnvLoop(_, _, _)
FnvLoop(hash, str, i) ==
    IF i > Len(str) THEN hash
    ELSE With(MulPrime(Xor32(hash, Word(0, charCodeAt(str[i])))),
              LAMBDA h : FnvLoop(h, str, i + 1))

fnv1a(str) == FnvLoop(FnvOffset, str, 1)

\* ------------------------------------------------------------------------
\* seededRng (dither.ts 145-154): one call of the closure on state s
\* ------------------------------------------------------------------------
RngIncrement == Word(27947, 31221)   \* 0x6d2b79f5

\* the output without its `>>> 0`: an int32, negative half of the time
RngOutputSigned(t) == Xor32(t, Shr32(t, 14))

\* the value the closure returns, as a numerator over 2^32
RngOutput(t) == ToUint32(Xor32(t, Shr32(t, 14)))

RngStep(s0) ==
    With(Add32(ToInt32(s0), RngIncrement), LAMBDA s :
    With(Imul(Xor32(s, Shr32(s, 15)), Or32(Word(0, 1), s)), LAMBDA t1 :
    With(Xor32(Add32(t1, Imul(Xor32(t1, Shr32(t1, 7)), Or32(Word(0, 61), t1))), t1), LAMBDA t2 :
        [s |-> s, out |-> RngOutput(t2)])))

\* the closure seededRng(seed) returns has a state s of its own, starting from
\* seed, whatever state the closure of an earlier call was left in
seededRng(seed, last) == seed

RECURSIVE Draw(_, _)
Draw(s, n) ==
    IF n = 0 THEN [s |-> s, out |-> <<>>]
    ELSE With(RngStep(s), LAMBDA one :
         With(Draw(one.s, n - 1), LAMBDA rest :
            [s |-> rest.s, out |-> <<one.out>> \o rest.out]))

\* a normalisation that forgets to lowercase
NormalizeTrimOnly(hash) == trim(hash)

\* hashToSeeds(hash, count) (dither.ts 156-160)
Normalize(hash) == trim(toLowerCase(hash))

\* the call, with the closure's last state as the caller never sees it
HashToSeedsRun(hash, n, last) == Draw(seededRng(fnv1a(Normalize(hash)), last), n)

hashToSeeds(hash, n) == HashToSeedsRun(hash, n, None).out

\* ------------------------------------------------------------------------
\* SpecSeeds: calls of hashToSeeds on a string and on a variant of it
\* ------------------------------------------------------------------------
SeedChars == {"a", "S", "1", " ", "U+017F"}

PadChars == {" ", "TAB"}

RECURSIVE StringsUpTo(_, _)
StringsUpTo(chars, n) ==
    IF n = 0 THEN {<<>>}
    ELSE LET shorter == StringsUpTo(chars, n - 1)
         IN  shorter \cup {Append(s, c) : s \in {t \in shorter : Len(t) = n - 1}, c \in chars}

notSeeds == <<hasDocument, toneVars, colorVars, ditherVars, lifeVars, component, digest>>

InitSeeds ==
    /\ hasDocument = FALSE /\ IdleTone /\ IdleColor /\ IdleDither /\ IdleLife
    /\ input \in StringsUpTo(SeedChars, MaxLen)
    /\ variant = input
    /\ edits = <<>>
    /\ count \in 0..MaxCount
    /\ rngS = None
    /\ calls = [c \in CallSites |-> Pending]
    /\ digest = Pending

\* the caller adds one whitespace character in front of or behind the variant
PadWhitespace(ws, front) ==
    /\ Len(edits) < MaxEdits
    /\ ~calls["variant"].done
    /\ variant' = IF front THEN <<ws>> \o variant ELSE Append(variant, ws)
    /\ edits' = Append(edits, "pad")
    /\ UNCHANGED <<input, count, rngS, calls, notSeeds>>

\* the other case of a character, where it has one
OtherCase(c) == IF UpperChar(c) # c THEN UpperChar(c) ELSE LowerChar(c)

\* a letter whose upper and lower case map to each other
OneToOneCase(c) ==
    /\ OtherCase(c) # c
    /\ LowerChar(UpperChar(c)) = LowerChar(c)
    /\ UpperChar(LowerChar(c)) = UpperChar(c)

\* the caller changes the case of the letter at position i of the variant
ChangeCase(i) ==
    /\ Len(edits) < MaxEdits
    /\ ~calls["variant"].done
    /\ i \in 1..Len(variant)
    /\ OtherCase(variant[i]) # variant[i]
    /\ variant' = [variant EXCEPT ![i] = OtherCase(variant[i])]
    /\ edits' = Append(edits, IF OneToOneCase(variant[i]) THEN "case" ELSE "special")
    /\ UNCHANGED <<input, count, rngS, calls, notSeeds>>

\* one call hashToSeeds(arg, count) at a call site
CallHashToSeeds(site) ==
    /\ ~calls[site].done
    /\ site = "again" => calls["first"].done
    /\ LET run == HashToSeedsRun(IF site = "variant" THEN variant ELSE input, count, rngS)
       IN  /\ calls' = [calls EXCEPT ![site] = Done(run.out)]
           /\ rngS' = Some(run.s)
    /\ UNCHANGED <<input, variant, edits, count, notSeeds>>

NextSeeds ==
    \/ \E ws \in PadChars, front \in BOOLEAN : PadWhitespace(ws, front)
    \/ \E i \in 1..(MaxLen + MaxEdits) : ChangeCase(i)
    \/ \E site \in CallSites : CallHashToSeeds(site)

SpecSeeds == InitSeeds /\ [][NextSeeds]_vars

Range(f) == {f[x] : x \in DOMAIN f}

\* C3 (as amended): two calls on the same string return the same sequence, and
\* so does a call on a variant obtained by adding leading or trailing
\* whitespace or by changing the case of letters whose upper and lower case
\* map to each other.
C3_NormalizedInput ==
    /\ (calls["first"].done /\ calls["again"].done) => calls["again"].val = calls["first"].val
    /\ (calls["first"].done /\ calls["variant"].done /\ "special" \notin Range(edits))
          => calls["variant"].val = calls["first"].val

C3_Witness ==
    /\ calls["first"].done /\ calls["again"].done /\ calls["variant"].done
    /\ count > 0
    /\ edits # <<>> /\ edits[Len(edits)] = "case"
    /\ variant # input

\* C3 (as stated): the same for every change of letter case.
C3_AnyCaseChange ==
    (calls["first"].done /\ calls["variant"].done) => calls["variant"].val = calls["first"].val

\* C4: hashToSeeds returns exactly count values, each u / 2^32 with
\* 0 <= u < 2^32, that is each in [0, 1).
C4_CountAndRange ==
    \A site \in CallSites :
        calls[site].done =>
            /\ Len(calls[site].val) = count
            /\ \A i \in 1..Len(calls[site].val) :
                    /\ calls[site].val[i].hi \in 0..(W16 - 1)
                    /\ calls[site].val[i].lo \in 0..(W16 - 1)

C4_Witness ==
    /\ calls["variant"].done
    /\ count = MaxCount
    /\ Len(calls["variant"].val) = MaxCount
    /\ Len(trim(variant)) = MaxLen

\* ------------------------------------------------------------------------
\* Numbers of the colour code.  A number is NaN or [a, b, u], the real
\* a + b * u / 2^32 with u a seed's numerator, in units of 1/LcScale for
\* lightness and chroma and of 1/HueScale degree for hue.  Floating-point
\* rounding is left out: the arithmetic is exact.
\* ------------------------------------------------------------------------
LcScale == 100000

HueScale == 10

NaN == [nan |-> TRUE, a |-> 0, b |-> 0, u |-> Word(0, 0)]

Zero32 == Word(0, 0)

Num(a, b, u) == [nan |-> FALSE, a |-> a, b |-> b, u |-> u]

Const(a) == Num(a, 0, Zero32)

\* floor(b * u / 2^32) for 0 <= b < 2^15
MulFracFloor(b, u) == (b * u.hi + ((b * u.lo) \div W16)) \div W16

\* b * u / 2^32 is a whole number
MulFracExact(b, u) ==
    /\ (b * u.lo) % W16 = 0
    /\ (b * u.hi + ((b * u.lo) \div W16)) % W16 = 0

\* x <= k for a number x that is not NaN and a whole k
LeqConst(x, k) ==
    \/ x.a + MulFracFloor(x.b, x.u) < k
    \/ x.a + MulFracFloor(x.b, x.u) = k /\ MulFracExact(x.b, x.u)

\* Math.max(x, k) for a constant x or NaN
MathMax(x, k) == IF x.nan THEN NaN ELSE IF x.a >= k THEN x ELSE Const(k)

\* Math.min(x, k)
MathMin(x, k) == IF x.nan THEN NaN ELSE IF LeqConst(x, k) THEN x ELSE Const(k)

\* x * p / q for a constant x, p / q a decimal factor such as 0.8
Scaled(x, p, q) == IF x.nan THEN NaN ELSE Const((x.a * p) \div q)

\* x + b * seed for a constant x
PlusSeed(x, b, seed) == IF x.nan THEN NaN ELSE Num(x.a, b, seed)

\* x % 360 for x >= 0 (hue units)
Mod360(x) ==
    IF x.nan THEN NaN
    ELSE LET turn == 360 * HueScale
             whole == x.a + MulFracFloor(x.b, x.u)
         IN  Num(x.a - turn * (whole \div turn), x.b, x.u)

\* ------------------------------------------------------------------------
\* hexToRgb (color.ts 11-18) and parseInt(_, 16)
\* ------------------------------------------------------------------------
HexDigits == <<"0", "1", "2", "3", "4", "5", "6", "7", "8", "9", "a", "b", "c", "d", "e", "f">>

IsHexChar(c) == LowerChar(c) \in {HexDigits[i] : i \in 1..16}

HexValue(c) == (CHOOSE i \in 1..16 : HexDigits[i] = LowerChar(c)) - 1

\* the four bits of a hex digit, most significant first
HexBits(d) == <<d \div 8, (d \div 4) % 2, (d \div 2) % 2, d % 2>>

\* the digits parseInt reads: the bits of the run of hex digits of s from
\* index i, most significant first
RECURSIVE HexRun(_, _)
HexRun(s, i) ==
    IF i <= Len(s) /\ IsHexChar(s[i]) THEN HexBits(HexValue(s[i])) \o HexRun(s, i + 1)
    ELSE <<>>

RECURSIVE DropLeadingZeros(_)
DropLeadingZeros(bits) ==
    IF bits # <<>> /\ Head(bits) = 0 THEN DropLeadingZeros(Tail(bits)) ELSE bits

\* the binary number bits + 1
RECURSIVE Increment(_)
Increment(bits) ==
    IF bits = <<>> THEN <<1>>
    ELSE IF bits[Len(bits)] = 0 THEN SubSeq(bits, 1, Len(bits) - 1) \o <<1>>
    ELSE Increment(SubSeq(bits, 1, Len(bits) - 1)) \o <<0>>

\* the value of at most 16 bits
RECURSIVE BitsValue(_)
BitsValue(bits) ==
    IF bits = <<>> THEN 0
    ELSE 2 * BitsValue(SubSeq(bits, 1, Len(bits) - 1)) + bits[Len(bits)]

\* the low 32 bits of a binary number, as `>>` and `&` read a Number
Low32(bits) ==
    LET n == Len(bits)
    IN  Word(BitsValue(SubSeq(bits, IF n > 32 THEN n - 31 ELSE 1, n - 16)),
             BitsValue(SubSeq(bits, IF n > 16 THEN n - 15 ELSE 1, n)))

\* the Number a whole value becomes: the double nearest to it, ties to even,
\* which keeps 53 significant bits and has zeros below them
NearestDouble(value) ==
    LET bits == DropLeadingZeros(value)
        n == Len(bits)
        kept == SubSeq(bits, 1, 53)
        up == /\ bits[54] = 1
              /\ (kept[53] = 1 \/ \E j \in 55..n : bits[j] = 1)
    IN  IF n <= 53 THEN bits
        ELSE (IF up THEN Increment(kept) ELSE kept) \o [j \in 1..(n - 53) |-> 0]

\* parseInt(s, 16), as the 32 bits `>>` reads of it; None (NaN) without a digit
ParseIntHex(s) ==
    LET t == TrimStart(s)
        neg == t # <<>> /\ t[1] = "-"
        i0 == IF t # <<>> /\ t[1] \in {"-", "+"} THEN 2 ELSE 1
        i1 == IF i0 + 1 <= Len(t) /\ t[i0] = "0" /\ t[i0 + 1] \in {"x", "X"} THEN i0 + 2 ELSE i0
    IN  IF i1 > Len(t) \/ ~IsHexChar(t[i1]) THEN None
        ELSE With(Low32(NearestDouble(HexRun(t, i1))),
                  LAMBDA n : Some(IF neg THEN Negate32(n) ELSE n))

\* hex.replace('#', ''): the first '#' removed
RECURSIVE RemoveFirstHash(_)
RemoveFirstHash(s) ==
    IF s = <<>> THEN s
    ELSE IF Head(s) = "#" THEN Tail(s)
    ELSE <<Head(s)>> \o RemoveFirstHash(Tail(s))

\* the channels [(n >> 16) & 255, (n >> 8) & 255, n & 255]; NaN >> k is 0
Channels(n) ==
    IF ~n.some THEN <<0, 0, 0>>
    ELSE <<(n.val.hi % W16) % 256, n.val.lo \div 256, n.val.lo % 256>>

hexToRgb(hex) ==
    LET clean == RemoveFirstHash(hex)
        full == IF Len(clean) = 3
                THEN <<clean[1], clean[1], clean[2], clean[2], clean[3], clean[3]>>
                ELSE clean
    IN  Channels(ParseIntHex(full))

\* ------------------------------------------------------------------------
\* parseTone (color.ts 67-97)
\* ------------------------------------------------------------------------
IsAsciiLetter(c) == IsUpperAscii(c) \/ IsLowerAscii(c)

\* /^[a-zA-Z]+$/.test(t)
IsAlphabetic(t) == t # <<>> /\ \A i \in 1..Len(t) : IsAsciiLetter(t[i])

\* /^[0-9a-f]{3,6}$/i.test(t)
IsBareHex(t) == Len(t) \in 3..6 /\ \A i \in 1..Len(t) : IsHexChar(t[i])

startsWith(t, c) == t # <<>> /\ t[1] = c

\* the pixel a 1x1 canvas holds after fillStyle = name; fillRect: a colour
\* name the browser knows gives its sRGB bytes, any other string leaves the
\* default fill, black
CssNames == <<<<<<"r", "e", "d">>, <<255, 0, 0>>>>,
              <<<<"h", "o", "t", "p", "i", "n", "k">>, <<255, 105, 180>>>>,
              <<<<"b", "l", "a", "c", "k">>, <<0, 0, 0>>>>,
              <<<<"w", "h", "i", "t", "e">>, <<255, 255, 255>>>>>>

FilledPixel(t) ==
    IF \E i \in 1..Len(CssNames) : CssNames[i][1] = toLowerCase(t)
    THEN CssNames[CHOOSE i \in 1..Len(CssNames) : CssNames[i][1] = toLowerCase(t)][2]
    ELSE <<0, 0, 0>>

\* the first index >= i of s that holds no whitespace (\s*)
RECURSIVE SkipSpace(_, _)
SkipSpace(s, i) ==
    IF i <= Len(s) /\ s[i] \in WhiteSpace THEN SkipSpace(s, i + 1) ELSE i

\* the first index >= i of s that holds neither a digit nor a dot ([\d.]+)
RECURSIVE SkipNumber(_, _)
SkipNumber(s, i) ==
    IF i <= Len(s) /\ (IsDigit(s[i]) \/ s[i] = ".") THEN SkipNumber(s, i + 1) ELSE i

OklchWord == <<"o", "k", "l", "c", "h", "(">>

\* the three groups of /oklch\(\s*([\d.]+%?)\s+([\d.]+)\s+([\d.]+)\s*\)/i
\* matched at index i of s, or None
OklchMatchAt(s, i) ==
    LET n1 == SkipSpace(s, i + 6)
        e1 == SkipNumber(s, n1)
        p1 == IF e1 <= Len(s) /\ s[e1] = "%" THEN e1 + 1 ELSE e1
        n2 == SkipSpace(s, p1)
        e2 == SkipNumber(s, n2)
        n3 == SkipSpace(s, e2)
        e3 == SkipNumber(s, n3)
        close == SkipSpace(s, e3)
    IN  IF /\ i + 5 <= Len(s)
           /\ \A k \in 1..6 : LowerChar(s[i + k - 1]) = OklchWord[k]
           /\ e1 > n1 /\ n2 > p1 /\ e2 > n2 /\ n3 > e2 /\ e3 > n3
           /\ close <= Len(s) /\ s[close] = ")"
        THEN Some(<<SubSeq(s, n1, p1 - 1), SubSeq(s, n2, e2 - 1), SubSeq(s, n3, e3 - 1)>>)
        ELSE None

\* t.match(...): the leftmost match, or None
OklchMatch(s) ==
    IF \E i \in 1..Len(s) : OklchMatchAt(s, i).some
    THEN OklchMatchAt(s, CHOOSE i \in 1..Len(s) :
            /\ OklchMatchAt(s, i).some
            /\ \A j \in 1..(i - 1) : ~OklchMatchAt(s, j).some)
    ELSE None

RECURSIVE SkipDigits(_, _)
SkipDigits(s, i) == IF i <= Len(s) /\ IsDigit(s[i]) THEN SkipDigits(s, i + 1) ELSE i

RECURSIVE DigitsValue(_, _, _)
DigitsValue(s, i, j) ==
    IF j < i THEN 0 ELSE 10 * DigitsValue(s, i, j - 1) + (charCodeAt(s[j]) - 48)

RECURSIVE Pow10(_)
Pow10(n) == IF n = 0 THEN 1 ELSE 10 * Pow10(n - 1)

\* parseFloat(s) for a run of digits and dots, in units of 1/scale: the longest
\* prefix digits[.digits] or .digits, NaN when it holds no digit
parseFloat(s, scale) ==
    LET e == SkipDigits(s, 1)
        f == IF e <= Len(s) /\ s[e] = "." THEN SkipDigits(s, e + 1) ELSE e
        fracLen == IF f > e THEN f - e - 1 ELSE 0
    IN  IF e = 1 /\ fracLen = 0 THEN NaN
        ELSE Const(DigitsValue(s, 1, e - 1) * scale
                   + (DigitsValue(s, e + 1, e + fracLen) * scale) \div Pow10(fracLen))

\* x / 100
Percent(x) == IF x.nan THEN NaN ELSE Const(x.a \div 100)

\* rgbToOklch evaluated on the sRGB colours the model's tokens decode to:
\* <<r, g, b>>, <<l, c, h>>, with l and c rounded to 1/LcScale and h to
\* 1/HueScale degree
OklchRows ==
    <<<<<<0, 0, 0>>, <<0, 0, 0>>>>,
      <<<<0, 0, 11>>, <<6761, 4686, 2641>>>>,
      <<<<0, 0, 18>>, <<8235, 5708, 2641>>>>,
      <<<<0, 0, 153>>, <<30868, 21397, 2641>>>>,
      <<<<0, 0, 170>>, <<33357, 23122, 2641>>>>,
      <<<<0, 0, 255>>, <<45198, 31329, 2641>>>>,
      <<<<0, 18, 52>>, <<19227, 7287, 2585>>>>,
      <<<<0, 153, 0>>, <<59173, 20134, 1425>>>>,
      <<<<0, 153, 153>>, <<61833, 10558, 1948>>>>,
      <<<<0, 153, 170>>, <<62498, 10766, 2086>>>>,
      <<<<0, 153, 255>>, <<66903, 18375, 2488>>>>,
      <<<<0, 170, 0>>, <<63944, 21757, 1425>>>>,
      <<<<0, 170, 153>>, <<66240, 11833, 1825>>>>,
      <<<<0, 170, 170>>, <<66819, 11409, 1948>>>>,
      <<<<0, 170, 255>>, <<70716, 16802, 2421>>>>,
      <<<<0, 255, 0>>, <<86643, 29480, 1425>>>>,
      <<<<0, 255, 153>>, <<87913, 21340, 1560>>>>,
      <<<<0, 255, 170>>, <<88242, 19919, 1602>>>>,
      <<<<0, 255, 255>>, <<90538, 15459, 1948>>>>,
      <<<<26, 43, 60>>, <<28261, 3885, 2494>>>>,
      <<<<35, 69, 103>>, <<38171, 7078, 2502>>>>,
      <<<<153, 0, 0>>, <<42889, 17596, 292>>>>,
      <<<<153, 0, 153>>, <<47922, 22028, 3284>>>>,
      <<<<153, 0, 170>>, <<49068, 23208, 3228>>>>,
      <<<<153, 0, 255>>, <<55970, 29571, 3019>>>>,
      <<<<153, 153, 0>>, <<66109, 14406, 1098>>>>,
      <<<<153, 153, 153>>, <<68295, 6, 2633>>>>,
      <<<<153, 153, 170>>, <<68848, 2478, 2857>>>>,
      <<<<153, 153, 255>>, <<72580, 14630, 2821>>>>,
      <<<<153, 170, 0>>, <<70028, 16099, 1167>>>>,
      <<<<153, 170, 153>>, <<71979, 3081, 1454>>>>,
      <<<<153, 170, 170>>, <<72476, 1909, 1969>>>>,
      <<<<153, 170, 255>>, <<75860, 12384, 2745>>>>,
      <<<<153, 255, 0>>, <<90165, 25270, 1326>>>>,
      <<<<153, 255, 153>>, <<91346, 16661, 1441>>>>,
      <<<<153, 255, 170>>, <<91652, 15032, 1483>>>>,
      <<<<153, 255, 255>>, <<93796, 9568, 1957>>>>,
      <<<<170, 0, 0>>, <<46347, 19014, 292>>>>,
      <<<<170, 0, 153>>, <<50756, 22692, 3339>>>>,
      <<<<170, 0, 170>>, <<51786, 23804, 3284>>>>,
      <<<<170, 0, 255>>, <<58123, 29871, 3070>>>>,
      <<<<170, 153, 0>>, <<67682, 14138, 1015>>>>,
      <<<<170, 153, 153>>, <<69778, 2011, 175>>>>,
      <<<<170, 153, 170>>, <<70309, 3119, 3258>>>>,
      <<<<170, 153, 255>>, <<73907, 14514, 2900>>>>,
      <<<<170, 170, 0>>, <<71440, 15567, 1098>>>>,
      <<<<170, 170, 153>>, <<73322, 2383, 1070>>>>,
      <<<<170, 170, 170>>, <<73802, 6, 2633>>>>,
      <<<<170, 170, 255>>, <<77080, 12070, 2832>>>>,
      <<<<170, 255, 0>>, <<91037, 24446, 1299>>>>,
      <<<<170, 255, 153>>, <<92197, 15739, 1404>>>>,
      <<<<170, 255, 170>>, <<92498, 14054, 1444>>>>,
      <<<<170, 255, 255>>, <<94607, 8207, 1959>>>>,
      <<<<171, 205, 239>>, <<83497, 6023, 2486>>>>,
      <<<<255, 0, 0>>, <<62799, 25764, 292>>>>,
      <<<<255, 0, 153>>, <<65335, 26842, 3547>>>>,
      <<<<255, 0, 170>>, <<65969, 27552, 3497>>>>,
      <<<<255, 0, 255>>, <<70168, 32253, 3284>>>>,
      <<<<255, 105, 180>>, <<72831, 19708, 3520>>>>,
      <<<<255, 153, 0>>, <<77197, 17375, 645>>>>,
      <<<<255, 153, 153>>, <<78845, 12257, 202>>>>,
      <<<<255, 153, 170>>, <<79268, 12311, 95>>>>,
      <<<<255, 153, 255>>, <<82177, 17463, 3270>>>>,
      <<<<255, 170, 0>>, <<80159, 17043, 733>>>>,
      <<<<255, 170, 153>>, <<81684, 10388, 318>>>>,
      <<<<255, 170, 170>>, <<82077, 10055, 194>>>>,
      <<<<255, 170, 255>>, <<84790, 14613, 3267>>>>,
      <<<<255, 255, 0>>, <<96799, 21093, 1098>>>>,
      <<<<255, 255, 153>>, <<97836, 12437, 1085>>>>,
      <<<<255, 255, 170>>, <<98105, 10573, 1082>>>>,
      <<<<255, 255, 255>>, <<100000, 9, 2633>>>>>>

OklchTable ==
    [rgb \in {OklchRows[i][1] : i \in 1..Len(OklchRows)} |->
        OklchRows[CHOOSE i \in 1..Len(OklchRows) : OklchRows[i][1] = rgb][2]]

\* rgbToOklch (color.ts 25-37) on the sRGB colours the model's tokens decode
\* to: [l, c, h] rounded to 1/LcScale and 1/HueScale degree
rgbToOklch(rgb) ==
    LET row == OklchTable[rgb]
    IN  [l |-> Const(row[1]), c |-> Const(row[2]), h |-> Const(row[3])]

Black == <<"b", "l", "a", "c", "k">>

parseTone(tone, doc) ==
    With(trim(tone), LAMBDA t :
    With(OklchMatch(t), LAMBDA match :
    LET m == match.val
    IN  IF IsAlphabetic(t)
        THEN IF ~doc THEN None
             ELSE LET px == FilledPixel(t)
                  IN  IF px[1] + px[2] + px[3] > 0 \/ toLowerCase(t) = Black
                      THEN Some(rgbToOklch(px)) ELSE None
        ELSE IF startsWith(t, "#") \/ IsBareHex(t)
        THEN Some(rgbToOklch(hexToRgb(IF startsWith(t, "#") THEN t ELSE <<"#">> \o t)))
        ELSE IF match.some
        THEN Some([l |-> IF m[1][Len(m[1])] = "%" THEN Percent(parseFloat(m[1], LcScale))
                         ELSE parseFloat(m[1], LcScale),
                   c |-> parseFloat(m[2], LcScale),
                   h |-> parseFloat(m[3], HueScale)])
        ELSE None))

\* ------------------------------------------------------------------------
\* generateColor (color.ts 101-133)
\* ------------------------------------------------------------------------
ChromaCap == 37000       \* 0.37

generateColor(seed, lSeed, cSeed, toneList, isSecondary, baseHue) ==
    IF toneList.some /\ Len(toneList.val) > 0
    THEN LET ti == MulFracFloor(Len(toneList.val), seed) % Len(toneList.val)
             tone == toneList.val[ti + 1]
             \* (tone.h + (seed * 2 - 1) * 30 + 360) % 360
             h == Mod360(PlusSeed(IF tone.h.nan THEN NaN ELSE Const(tone.h.a + 330 * HueScale),
                                  60 * HueScale, seed))
             l == IF isSecondary THEN Num(22000, 18000, lSeed) ELSE Num(52000, 22000, lSeed)
             c == IF isSecondary
                  THEN PlusSeed(MathMax(Scaled(tone.c, 5, 10), 6000), 8000, cSeed)
                  ELSE PlusSeed(MathMax(Scaled(tone.c, 8, 10), 14000), 10000, cSeed)
         IN  [l |-> l, c |-> MathMin(c, ChromaCap), h |-> h]
    ELSE LET hue == IF baseHue.some THEN baseHue.val ELSE Num(0, 360 * HueScale, seed)
             h == Mod360(IF hue.nan THEN NaN ELSE Num(hue.a + 360 * HueScale, hue.b, hue.u))
             l == IF isSecondary THEN Num(18000, 20000, cSeed) ELSE Num(55000, 22000, lSeed)
             c == IF isSecondary THEN Num(8000, 12000, lSeed) ELSE Num(18000, 18000, cSeed)
         IN  [l |-> l, c |-> MathMin(c, ChromaCap), h |-> h]

\* ------------------------------------------------------------------------
\* hashToColors (index.ts 18-30, index.js 12-20)
\* ------------------------------------------------------------------------
RECURSIVE FilterParsed(_)
FilterParsed(parsed) ==
    IF parsed = <<>> THEN <<>>
    ELSE IF ~Head(parsed).some THEN FilterParsed(Tail(parsed))
    ELSE <<Head(parsed).val>> \o FilterParsed(Tail(parsed))

\* tones?.map(parseTone).filter(t => t !== null), undefined when empty
ToneList(toneTokens, doc) ==
    IF ~toneTokens.some THEN None
    ELSE LET parsed == FilterParsed([i \in 1..Len(toneTokens.val) |->
                                        parseTone(toneTokens.val[i], doc)])
         IN  IF Len(parsed) > 0 THEN Some(parsed) ELSE None

\* a base hue computed only when the caller passed no tone list at all
BaseHueWhenAbsent(toneTokens, toneList, seeds) ==
    IF toneTokens.some THEN None ELSE Some(Mod360(Num(0, 360 * HueScale, seeds[1])))

\* toneList ? undefined : (seeds[0] * 360) % 360
BaseHue(toneTokens, toneList, seeds) ==
    IF toneList.some THEN None ELSE Some(Mod360(Num(0, 360 * HueScale, seeds[1])))

hashToColors(hash, toneTokens, n, doc) ==
    With(hashToSeeds(hash, n * 3), LAMBDA seeds :
    With(ToneList(toneTokens, doc), LAMBDA toneList :
    With(IF n = 0 THEN Some(NaN) ELSE BaseHue(toneTokens, toneList, seeds), LAMBDA baseHue :
        [i \in 1..n |->
            generateColor(seeds[3 * i - 2], seeds[3 * i - 1], seeds[3 * i],
                          toneList, i > 1, baseHue)])))

\* ------------------------------------------------------------------------
\* SpecTone: parseTone on a token and on the same token behind a '#'
\* ------------------------------------------------------------------------
Hex3Chars == {"0", "9", "a", "F"}

Hex6Tokens ==
    {<<"f", "f", "6", "9", "b", "4">>, <<"F", "F", "6", "9", "B", "4">>,
     <<"a", "b", "c", "d", "e", "f">>, <<"1", "a", "2", "B", "3", "c">>,
     <<"0", "0", "0", "0", "0", "0">>}

HexTokens == [1..3 -> Hex3Chars] \cup Hex6Tokens

OtherTokens ==
    {<<"#", "f", "f", "6", "9", "b", "4">>,
     <<"#", "1", "2">>,
     <<"#", "1", "2", "3", "4", "5", "6", "7">>,
     <<"#", "z", "z", "z">>,
     <<"#", "f", "f", "f", "f", "f", "f", "f", "f", "f", "f", "f", "f", "f", "f">>,
     <<"#">>,
     <<"1", "2", "3", "4">>,
     <<" ", "#", "f", "f", "f", " ">>,
     <<"o", "k", "l", "c", "h", "(", "0", ".", "6", " ", "0", ".", "2", "5", " ", "3", "1", "0", ")">>,
     <<"O", "K", "L", "C", "H", "(", " ", "6", "0", "%", " ", "0", ".", "2", "5", " ", "3", "1", "0", " ", ")">>,
     <<"o", "k", "l", "c", "h", "(", "0", ".", "5", " ", ".", " ", "1", "0", ")">>,
     <<"o", "k", "l", "c", "h", "(", "0", ".", "6", " ", "0", ".", "2", "5", ")">>,
     <<"o", "k", "l", "c", "h", "(", "0", ".", "6", " ", "0", ".", "2", "5", " ", "3", "1", "0", " ", "2", "0", ")">>,
     <<"n", "o", "t", "-", "a", "-", "c", "o", "l", "o", "r", "-", "x", "y", "z">>,
     <<"r", "e", "d">>,
     <<"H", "o", "t", "P", "i", "n", "k">>,
     <<"b", "l", "a", "c", "k">>,
     <<"z", "z", "z">>}

ToneTokens == HexTokens \cup OtherTokens

notTone == <<seedVars, colorVars, ditherVars, lifeVars, component>>

InitTone ==
    /\ IdleSeeds /\ IdleColor /\ IdleDither /\ IdleLife
    /\ hasDocument \in BOOLEAN
    /\ token \in ToneTokens
    /\ bare = Pending
    /\ prefixed = Pending

ParseBare ==
    /\ ~bare.done
    /\ bare' = Done(parseTone(token, hasDocument))
    /\ UNCHANGED <<hasDocument, token, prefixed, notTone>>

ParsePrefixed ==
    /\ ~prefixed.done
    /\ prefixed' = Done(parseTone(<<"#">> \o token, hasDocument))
    /\ UNCHANGED <<hasDocument, token, bare, notTone>>

NextTone == ParseBare \/ ParsePrefixed

SpecTone == InitTone /\ [][NextTone]_vars

\* C8 (as stated): for a token of 3 or 6 hexadecimal digits, parseTone of the
\* bare token returns the colour parseTone returns for '#' + token, and that
\* colour is not none.
C8_BareHexLikePrefixed ==
    (/\ bare.done /\ prefixed.done
     /\ Len(token) \in {3, 6} /\ \A i \in 1..Len(token) : IsHexChar(token[i]))
        => (OptEq(bare.val, prefixed.val) /\ bare.val.some)

\* ------------------------------------------------------------------------
\* SpecColor: hashToColors on a tone list and on the list a caller has
\* cleaned of the tokens parseTone rejects, and direct calls of generateColor
\* ------------------------------------------------------------------------
MaxTones == 2        \* longest tone list
MaxColors == 2       \* largest count handed to hashToColors

ColorHashes == {<<"a">>, <<"s", "a", "t", "o", "s", "h", "i">>}

ColorTokens ==
    {<<"#", "f", "f", "6", "9", "b", "4">>,
     <<"o", "k", "l", "c", "h", "(", "0", ".", "6", " ", "0", ".", "5", " ", "3", "1", "0", ")">>,
     <<"o", "k", "l", "c", "h", "(", "0", ".", "5", " ", ".", " ", "1", "0", ")">>,
     <<"n", "o", "t", "-", "a", "-", "c", "o", "l", "o", "r", "-", "x", "y", "z">>,
     <<"r", "e", "d">>}

\* the seeds a direct caller of generateColor tries: 0 and the largest seed
CornerSeeds == {Zero32, Word(W16 - 1, W16 - 1)}

notColor == <<seedVars, toneVars, ditherVars, lifeVars, component>>

InitColor ==
    /\ IdleSeeds /\ IdleTone /\ IdleDither /\ IdleLife
    /\ hasDocument \in BOOLEAN
    /\ chash \in ColorHashes
    /\ \/ tones = None
       \/ \E list \in StringsUpTo(ColorTokens, MaxTones) : tones = Some(list)
    /\ colorCount \in 0..MaxColors
    /\ cleaned = Pending
    /\ palette = [site \in PaletteSites |-> Pending]
    /\ gen = Pending

RECURSIVE Parsable(_, _)
Parsable(toneTokens, doc) ==
    IF toneTokens = <<>> THEN <<>>
    ELSE IF ~parseTone(Head(toneTokens), doc).some THEN Parsable(Tail(toneTokens), doc)
    ELSE <<Head(toneTokens)>> \o Parsable(Tail(toneTokens), doc)

\* the caller removes from the list the tokens parseTone returns none for
DropUnparsable ==
    /\ ~cleaned.done
    /\ cleaned' = Done(IF tones.some THEN Some(Parsable(tones.val, hasDocument)) ELSE None)
    /\ UNCHANGED <<hasDocument, chash, tones, colorCount, palette, gen, notColor>>

\* one call hashToColors(chash, list, colorCount)
CallHashToColors(site) ==
    /\ ~gen.done
    /\ ~palette[site].done
    /\ site = "cleaned" => cleaned.done
    /\ palette' = [palette EXCEPT ![site] =
            Done(hashToColors(chash, IF site = "given" THEN tones ELSE cleaned.val,
                              colorCount, hasDocument))]
    /\ UNCHANGED <<hasDocument, chash, tones, cleaned, colorCount, gen, notColor>>

\* one direct call generateColor(seed, lSeed, cSeed, toneList, isSecondary, baseHue)
\* with the parsed tones as tone list
CallGenerateColor(seed, lSeed, cSeed, isSecondary, baseHue) ==
    /\ ~gen.done
    /\ ~cleaned.done
    /\ \A site \in PaletteSites : ~palette[site].done
    /\ gen' = Done([secondary |-> isSecondary,
                    out |-> generateColor(seed, lSeed, cSeed, ToneList(tones, hasDocument),
                                          isSecondary, baseHue)])
    /\ UNCHANGED <<hasDocument, chash, tones, cleaned, colorCount, palette, notColor>>

NextColor ==
    \/ DropUnparsable
    \/ \E site \in PaletteSites : CallHashToColors(site)
    \/ \E seed \in CornerSeeds, lSeed \in CornerSeeds, cSeed \in CornerSeeds,
          isSecondary \in BOOLEAN, baseHue \in {None, Some(Const(180 * HueScale))} :
            CallGenerateColor(seed, lSeed, cSeed, isSecondary, baseHue)

SpecColor == InitColor /\ [][NextColor]_vars

\* the colours returned so far
Returned ==
    UNION {Range(palette[site].val) : site \in {x \in PaletteSites : palette[x].done}}
    \cup (IF gen.done THEN {gen.val.out} ELSE {})

\* C5 (as stated): every colour generateColor returns has a chroma <= 0.37.
C5_ChromaCapped ==
    \A col \in Returned : ~col.c.nan /\ LeqConst(col.c, ChromaCap)

\* every token of the list is one parseTone returns none for
AllUnparsable(toneTokens, doc) ==
    \A i \in 1..Len(toneTokens) : ~parseTone(toneTokens[i], doc).some

\* C9: the palette of a tone list is the palette of the list without the
\* tokens parseTone returns none for, and with an absent or empty list or a
\* list of such tokens only, every entry has the hue (seeds[0] * 360) % 360.
C9_DropsUnparsable ==
    /\ (palette["given"].done /\ palette["cleaned"].done)
          => palette["given"].val = palette["cleaned"].val
    /\ (palette["given"].done /\ (~tones.some \/ AllUnparsable(tones.val, hasDocument)))
          => \A i \in 1..Len(palette["given"].val) :
                palette["given"].val[i].h
                    = Mod360(Num(0, 360 * HueScale, hashToSeeds(chash, 3 * colorCount)[1]))

C9_Witness ==
    /\ palette["given"].done /\ palette["cleaned"].done
    /\ colorCount = MaxColors
    /\ tones.some /\ Len(tones.val) = MaxTones
    /\ AllUnparsable(tones.val, hasDocument)
    /\ cleaned.val = Some(<<>>)

\* ------------------------------------------------------------------------
\* oklchToHex (color.ts 39-54) and the dither renderer's colours
\* ------------------------------------------------------------------------
Colour(l, c, h) == [l |-> Const(l), c |-> Const(c), h |-> Const(h)]

Violet == Colour(60000, 25000, 3100)

Pink == Colour(70000, 20000, 3500)

Teal == Colour(25000, 10000, 2000)

BlackA == Colour(0, 0, 0)

BlackB == Colour(0, 0, 1800)

\* oklchToHex evaluated on the colours above
HexRows ==
    <<<<Violet, <<"#", "a", "d", "3", "e", "e", "c">>>>,
      <<Pink, <<"#", "f", "4", "5", "f", "b", "0">>>>,
      <<Teal, <<"#", "0", "0", "2", "d", "3", "4">>>>,
      <<BlackA, <<"#", "0", "0", "0", "0", "0", "0">>>>,
      <<BlackB, <<"#", "0", "0", "0", "0", "0", "0">>>>>>

oklchToHex(col) == HexRows[CHOOSE i \in 1..Len(HexRows) : HexRows[i][1] = col][2]

\* hexToRgb of dither.ts (26-29): no expansion of a 3-digit form
DitherHexToRgb(hex) == Channels(ParseIntHex(RemoveFirstHash(hex)))

\* ------------------------------------------------------------------------
\* Numbers: IEEE 754 doubles.  A double is (-1)^neg * man * 2^exp with man a
\* whole number of exactly 53 bits, or 0; man is held in limbs of LimbBits
\* bits, least significant first, without leading zero limbs.
\* ------------------------------------------------------------------------
LimbBits == 13

Limb == 8192         \* 2^LimbBits

Rest(a) == IF a = <<>> THEN <<>> ELSE Tail(a)

First(a) == IF a = <<>> THEN 0 ELSE Head(a)

RECURSIVE BigTrim(_)
BigTrim(a) ==
    IF a # <<>> /\ a[Len(a)] = 0 THEN BigTrim(SubSeq(a, 1, Len(a) - 1)) ELSE a

\* the limbs of a whole number n >= 0
RECURSIVE BigOf(_)
BigOf(n) == IF n = 0 THEN <<>> ELSE <<n % Limb>> \o BigOf(n \div Limb)

RECURSIVE BigAddCarry(_, _, _)
BigAddCarry(a, b, c) ==
    IF a = <<>> /\ b = <<>> THEN BigOf(c)
    ELSE With(First(a) + First(b) + c,
              LAMBDA s : <<s % Limb>> \o BigAddCarry(Rest(a), Rest(b), s \div Limb))

BigAdd(a, b) == BigAddCarry(a, b, 0)

\* a - b for a >= b
RECURSIVE BigSubBorrow(_, _, _)
BigSubBorrow(a, b, c) ==
    IF a = <<>> THEN <<>>
    ELSE With(Head(a) - First(b) - c,
              LAMBDA d : <<(d + Limb) % Limb>>
                         \o BigSubBorrow(Tail(a), Rest(b), IF d < 0 THEN 1 ELSE 0))

BigSub(a, b) == BigTrim(BigSubBorrow(a, b, 0))

RECURSIVE BigCmpFrom(_, _, _)
BigCmpFrom(a, b, i) ==
    IF i = 0 THEN 0
    ELSE IF a[i] > b[i] THEN 1
    ELSE IF a[i] < b[i] THEN -1
    ELSE BigCmpFrom(a, b, i - 1)

\* the sign of a - b
BigCmp(a, b) ==
    IF Len(a) > Len(b) THEN 1
    ELSE IF Len(a) < Len(b) THEN -1
    ELSE BigCmpFrom(a, b, Len(a))

\* a * m for 0 <= m <= 65536
RECURSIVE BigMulCarry(_, _, _)
BigMulCarry(a, m, c) ==
    IF a = <<>> THEN BigOf(c)
    ELSE With(Head(a) * m + c,
              LAMBDA p : <<p % Limb>> \o BigMulCarry(Tail(a), m, p \div Limb))

BigMulSmall(a, m) == BigTrim(BigMulCarry(a, m, 0))

\* a * 2^(LimbBits * n)
ShiftLimbs(a, n) == IF a = <<>> THEN <<>> ELSE [i \in 1..n |-> 0] \o a

RECURSIVE BigMul(_, _)
BigMul(a, b) ==
    IF a = <<>> \/ b = <<>> THEN <<>>
    ELSE BigAdd(BigMulSmall(a, Head(b)), ShiftLimbs(BigMul(a, Tail(b)), 1))

\* a * 2^n
BigShl(a, n) == ShiftLimbs(BigMulSmall(a, Pow2(n % LimbBits)), n \div LimbBits)

\* floor(a / 2^n)
BigShr(a, n) ==
    LET high == SubSeq(a, (n \div LimbBits) + 1, Len(a))
        k == n % LimbBits
    IN  BigTrim([i \in 1..Len(high) |->
                    (high[i] \div Pow2(k))
                    + (IF i < Len(high) THEN (high[i + 1] % Pow2(k)) * Pow2(LimbBits - k)
                       ELSE 0)])

\* the number of bits of a limb
RECURSIVE LimbLen(_)
LimbLen(x) == IF x = 0 THEN 0 ELSE 1 + LimbLen(x \div 2)

\* the number of bits of a
BitLen(a) == IF a = <<>> THEN 0 ELSE LimbBits * (Len(a) - 1) + LimbLen(a[Len(a)])

\* bit i of a, bit 0 the lowest
BigBit(a, i) ==
    IF (i \div LimbBits) + 1 > Len(a) THEN 0
    ELSE (a[(i \div LimbBits) + 1] \div Pow2(i % LimbBits)) % 2

\* one step of long division: bit i of a is brought down to the remainder
\* qr[2], and the quotient qr[1] gains one bit
BigDivBit(a, b, i, qr) ==
    With(qr, LAMBDA s :
        With(BigAdd(BigMulSmall(s[2], 2), BigOf(BigBit(a, i))), LAMBDA r2 :
            IF BigCmp(r2, b) >= 0
            THEN <<BigAdd(BigMulSmall(s[1], 2), <<1>>), BigSub(r2, b)>>
            ELSE <<BigMulSmall(s[1], 2), r2>>))

\* n steps of long division from bit i of a down, the first half of the steps
\* and then the second
RECURSIVE BigDivStep(_, _, _, _, _)
BigDivStep(a, b, i, n, qr) ==
    IF n = 0 THEN qr
    ELSE IF n = 1 THEN BigDivBit(a, b, i, qr)
    ELSE With(BigDivStep(a, b, i, n \div 2, qr), LAMBDA s :
            BigDivStep(a, b, i - (n \div 2), n - (n \div 2), s))

\* <<floor(a / b), a mod b>>
BigDivMod(a, b) ==
    With(<<a, b>>, LAMBDA ab :
        BigDivStep(ab[1], ab[2], BitLen(ab[1]) - 1, BitLen(ab[1]), <<<<>>, <<>>>>))

\* 16-bit words, most significant first, as a whole number
RECURSIVE BigOfWords(_)
BigOfWords(ws) ==
    IF ws = <<>> THEN <<>>
    ELSE BigAdd(BigShl(BigOfWords(SubSeq(ws, 1, Len(ws) - 1)), 16), BigOf(ws[Len(ws)]))

Dbl(neg, man, exp) == [neg |-> neg, man |-> man, exp |-> exp]

DZero == Dbl(FALSE, <<>>, 0)

\* the double nearest to (-1)^neg * n * 2^e, ties to even
RoundDbl(neg, n, e) ==
    LET len == BitLen(n)
        k == len - 53
    IN  IF len = 0 THEN DZero
        ELSE IF k <= 0 THEN Dbl(neg, BigShl(n, 0 - k), e + k)
        ELSE With(BigShr(n, k), LAMBDA q :
             LET sticky == BigShl(BigShr(n, k - 1), k - 1) # n
                 up == BigBit(n, k - 1) = 1 /\ (sticky \/ BigBit(q, 0) = 1)
             IN  With(IF up THEN BigAdd(q, <<1>>) ELSE q, LAMBDA m :
                    IF BitLen(m) > 53 THEN Dbl(neg, BigShr(m, 1), e + k + 1)
                    ELSE Dbl(neg, m, e + k)))

\* the double of a whole number, and of half a whole number
DInt(n) == RoundDbl(n < 0, BigOf(IF n < 0 THEN 0 - n ELSE n), 0)

DHalves(n) == RoundDbl(n < 0, BigOf(IF n < 0 THEN 0 - n ELSE n), -1)

\* the double u / 2^32 of a 32-bit word: a seed
DSeed(u) == RoundDbl(FALSE, BigOfWords(<<u.hi % W16, u.lo>>), -32)

DNeg(x) == IF x.man = <<>> THEN x ELSE Dbl(~x.neg, x.man, x.exp)

\* the sign of x - y
DCmp(x, y) ==
    IF x.man = <<>> /\ y.man = <<>> THEN 0
    ELSE IF x.man = <<>> THEN (IF y.neg THEN 1 ELSE -1)
    ELSE IF y.man = <<>> THEN (IF x.neg THEN -1 ELSE 1)
    ELSE IF x.neg # y.neg THEN (IF x.neg THEN -1 ELSE 1)
    ELSE LET mag == IF x.exp > y.exp THEN 1
                    ELSE IF x.exp < y.exp THEN -1
                    ELSE BigCmp(x.man, y.man)
         IN  IF x.neg THEN 0 - mag ELSE mag

\* x + y
DAdd(x, y) ==
    IF x.man = <<>> THEN y
    ELSE IF y.man = <<>> THEN x
    ELSE LET e == IF x.exp < y.exp THEN x.exp ELSE y.exp
         IN  With(BigShl(x.man, x.exp - e), LAMBDA a :
             With(BigShl(y.man, y.exp - e), LAMBDA b :
                IF x.neg = y.neg THEN RoundDbl(x.neg, BigAdd(a, b), e)
                ELSE IF BigCmp(a, b) >= 0 THEN RoundDbl(x.neg, BigSub(a, b), e)
                ELSE RoundDbl(y.neg, BigSub(b, a), e)))

\* x - y
DSub(x, y) == DAdd(x, DNeg(y))

\* x * y
DMul(x, y) ==
    IF x.man = <<>> \/ y.man = <<>> THEN DZero
    ELSE RoundDbl(x.neg # y.neg, BigMul(x.man, y.man), x.exp + y.exp)

\* x / y for y other than 0: 57 bits of the quotient and one for the rest
DDiv(x, y) ==
    IF x.man = <<>> THEN DZero
    ELSE With(BigDivMod(BigShl(x.man, 56), y.man), LAMBDA qr :
            RoundDbl(x.neg # y.neg,
                     BigAdd(BigMulSmall(qr[1], 2), IF qr[2] = <<>> THEN <<>> ELSE <<1>>),
                     x.exp - y.exp - 57))

\* Math.max(x, y) and Math.min(x, y)
DMax(x, y) == IF DCmp(x, y) >= 0 THEN x ELSE y

DMin(x, y) == IF DCmp(x, y) <= 0 THEN x ELSE y

\* ------------------------------------------------------------------------
\* renderDither (dither.ts 36-132): the set-up and the static draw
\* ------------------------------------------------------------------------
BAYER8 ==
    <<<< 0, 32,  8, 40,  2, 34, 10, 42>>,
      <<48, 16, 56, 24, 50, 18, 58, 26>>,
      <<12, 44,  4, 36, 14, 46,  6, 38>>,
      <<60, 28, 52, 20, 62, 30, 54, 22>>,
      << 3, 35, 11, 43,  1, 33,  9, 41>>,
      <<51, 19, 59, 27, 49, 17, 57, 25>>,
      <<15, 47,  7, 39, 13, 45,  5, 37>>,
      <<63, 31, 55, 23, 61, 29, 53, 21>>>>

\* getDevicePixelRatio (dither.ts 31-34); ratio is 0 without a window
getDevicePixelRatio(ratio) == IF ratio = 0 THEN 1 ELSE IF ratio < 3 THEN ratio ELSE 3

\* Math.round(p / q) for whole p >= 0, q > 0
RoundDiv(p, q) == (2 * p + q) \div (2 * q)

\* Math.ceil(p / q)
CeilDiv(p, q) == (p + q - 1) \div q

Max(a, b) == IF a >= b THEN a ELSE b

Min(a, b) == IF a <= b THEN a ELSE b

RECURSIVE Gcd(_, _)
Gcd(a, b) == IF b = 0 THEN a ELSE Gcd(b, a % b)

\* dotScaleOpt ?? Math.max(2, Math.round(size / 35)), then scaled by dpr
DotScale(size, dotScaleOpt, dpr) ==
    LET logical == IF dotScaleOpt.some THEN dotScaleOpt.val ELSE Max(2, RoundDiv(size, 35))
    IN  Max(1, logical * dpr)

\* 0.55 is the double 0x1199999999999A * 2^-53
D055 == Dbl(FALSE, BigOfWords(<<17, 39321, 39321, 39322>>), -53)

\* falloff = 0.55 + seeds[1] * 0.25 (dither.ts 55); 0.25 is 1 * 2^-2
Falloff(seed) == DAdd(D055, DMul(DSeed(seed), RoundDbl(FALSE, <<1>>, -2)))

\* seeds[0] = 1/4, 1/2 and 3/4: a quarter turn, a half turn, three quarters
QuarterTurn == Word(16384, 0)

HalfTurn == Word(32768, 0)

ThreeQuarterTurn == Word(49152, 0)

\* Math.cos(Math.PI / 2) = 6.123233995736766e-17, the double
\* 0x11A62633145C07 * 2^-106; Math.sin(Math.PI) is twice that
TinyMan == BigOfWords(<<17, 42534, 13076, 23559>>)

\* Math.cos(baseAngle + 0) for baseAngle = seeds[0] * Math.PI * 2 (dither.ts
\* 54, 71-72), at the whole quarter turns; Math.cos(0.75 * Math.PI * 2) is
\* -1.8369701987210297e-16, the double -0x1A79394C9E8A0A * 2^-105
CosA(seed0) ==
    CASE seed0 = Zero32 -> DInt(1)
      [] seed0 = QuarterTurn -> Dbl(FALSE, TinyMan, -106)
      [] seed0 = HalfTurn -> DNeg(DInt(1))
      [] seed0 = ThreeQuarterTurn -> Dbl(TRUE, BigOfWords(<<26, 31033, 19614, 35338>>), -105)

\* Math.sin(baseAngle + 0) (dither.ts 73)
SinA(seed0) ==
    CASE seed0 = Zero32 -> DZero
      [] seed0 = QuarterTurn -> DInt(1)
      [] seed0 = HalfTurn -> Dbl(FALSE, TinyMan, -105)
      [] seed0 = ThreeQuarterTurn -> DNeg(DInt(1))

\* tRaw = (proj - drift + falloff) / (falloff * 2) of cell (gx, gy) in a static
\* draw (drift = 0), with proj = (nx - 0.5) * cosA + (ny - 0.5) * sinA and
\* nx = (gx - padding + 0.5) / (gridSize - padding * 2) (dither.ts 81-96)
TRaw(gx, gy, cells, seeds) ==
    With(Falloff(seeds[2]), LAMBDA falloff :
        LET nx == DDiv(DHalves(2 * gx - 1), DInt(cells))
            ny == DDiv(DHalves(2 * gy - 1), DInt(cells))
            proj == DAdd(DMul(DSub(nx, DHalves(1)), CosA(seeds[1])),
                         DMul(DSub(ny, DHalves(1)), SinA(seeds[1])))
        IN  DDiv(DAdd(DSub(proj, DZero), falloff), DMul(falloff, DInt(2))))

\* t = tClamp * tClamp * (3 - 2 * tClamp), tClamp = Math.max(0, Math.min(1, tRaw))
\* (dither.ts 97-98)
Eased(tRaw) ==
    With(DMax(DZero, DMin(DInt(1), tRaw)), LAMBDA tClamp :
        DMul(DMul(tClamp, tClamp), DSub(DInt(3), DMul(DInt(2), tClamp))))

\* BAYER8[gy % 8][gx % 8]: the matrix entry over 64 (dither.ts 23, 100)
Bayer(gx, gy) == DDiv(DInt(BAYER8[(gy % 8) + 1][(gx % 8) + 1]), DInt(64))

\* The same values in exact arithmetic, for a seeds[1] that is a multiple of
\* 2^-16: falloff as a fraction <<p, q>> in lowest terms
ExactFalloff(seed) ==
    LET p == 11 * 4 * W16 + 20 * (seed.hi % W16)
        q == 20 * 4 * W16
        g == Gcd(p, q)
    IN  <<p \div g, q \div g>>

\* the whole number a cosine or sine of the table is next to
Unit(x) == IF x.man = <<>> \/ x.exp < -52 THEN 0 ELSE IF x.neg THEN -1 ELSE 1

\* tRaw as a fraction <<N, D>>, D > 0, with the cosine and sine at their units
ExactTRaw(gx, gy, cells, f, seed0) ==
    LET proj2n == (2 * gx - 1 - cells) * Unit(CosA(seed0))
                  + (2 * gy - 1 - cells) * Unit(SinA(seed0))
    IN  <<proj2n * f[2] + 2 * cells * f[1], 4 * cells * f[1]>>

\* the largest denominator D the exact comparison takes: 64 * D * D is a
\* 32-bit number, and the exact t is then at least 1 / (64 * D^3) > 2^-44 from a
\* threshold it differs from, where the double t is within 2^-49 of it
MaxExact == 5792

\* the sign of t - k / 64 in exact arithmetic for the fraction raw, and whether
\* the doubles are sure to compare the same way: they are when tRaw is clamped
\* (t is exactly 0 or 1) and when the exact t is off the threshold
ExactSide(raw, k) ==
    LET d == raw[2]
        n == raw[1]
        sq == 64 * n * n
        b == 3 * d - 2 * n
        whole == (sq \div d) * b + ((sq % d) * b) \div d
        rest == ((sq % d) * b) % d
        side == IF whole > k * d * d \/ (whole = k * d * d /\ rest > 0) THEN 1
                ELSE IF whole < k * d * d THEN -1
                ELSE 0
    IN  IF n < 0 THEN [sure |-> TRUE, side |-> IF k = 0 THEN 0 ELSE -1]
        ELSE IF n > d THEN [sure |-> TRUE, side |-> 1]
        ELSE IF n = 0 \/ n = d THEN [sure |-> FALSE, side |-> 0]
        ELSE [sure |-> side # 0, side |-> side]

\* whether the exact comparison applies to a grid of that many cells
HasExact(cells, seeds) ==
    /\ seeds[2].lo = 0
    /\ ExactFalloff(seeds[2])[1] <= MaxExact \div (4 * cells)

\* the sign of t - bayer for cell (gx, gy): of the doubles the code compares
ThresholdSide(gx, gy, cells, seeds) ==
    With(IF HasExact(cells, seeds)
         THEN ExactSide(ExactTRaw(gx, gy, cells, ExactFalloff(seeds[2]), seeds[1]),
                        BAYER8[(gy % 8) + 1][(gx % 8) + 1])
         ELSE [sure |-> FALSE, side |-> 0],
         LAMBDA exact :
            IF exact.sure THEN exact.side
            ELSE DCmp(Eased(TRaw(gx, gy, cells, seeds)), Bayer(gx, gy)))

\* the sign of t - bayer for every cell a pixel lies in
CellSides(cells, seeds) ==
    [cell \in (1..cells) \X (1..cells) |-> ThresholdSide(cell[1], cell[2], cells, seeds)]

\* `if (t > bayer) continue;` (dither.ts 101): the cell is left unpainted
Skipped(gx, gy, cells, seeds) == ThresholdSide(gx, gy, cells, seeds) > 0

\* a canvas: its size, its CSS size and its pixels <<r, g, b, a>> by index
\* y * width + x
Surface(w, h, css, data) == [width |-> w, height |-> h, css |-> css, data |-> data]

BlankCanvas == Surface(0, 0, 0, <<>>)

\* a pixel left as createImageData made it: transparent black
PrefillNone(colB) == <<0, 0, 0, 0>>

\* the pixel the first loop of draw writes (dither.ts 75-77)
Prefill(colB) == <<colB[1], colB[2], colB[3], 255>>

\* the image draw(0) puts on the canvas: colB everywhere, colA on the pixels
\* of the cells that are not skipped (pixel (x, y) lies in the cell
\* (x div dotScale + padding, y div dotScale + padding))
StaticImage(sizePx, dotScale, colors, seeds) ==
    LET colA == DitherHexToRgb(oklchToHex(colors[1]))
        colB == DitherHexToRgb(oklchToHex(colors[Min(1, Len(colors) - 1) + 1]))
        gridSize == CeilDiv(sizePx, dotScale) + 2
    IN  With([cell \in (0..(gridSize - 1)) \X (0..(gridSize - 1)) |->
                ~Skipped(cell[1], cell[2], gridSize - 2, seeds)],
             LAMBDA painted :
                [i \in 1..(sizePx * sizePx) |->
                    LET x == (i - 1) % sizePx
                        y == (i - 1) \div sizePx
                    IN  IF painted[<<(x \div dotScale) + 1, (y \div dotScale) + 1>>]
                        THEN <<colA[1], colA[2], colA[3], 255>>
                        ELSE Prefill(colB)])

\* renderDither(canvas, {size, colors, dotScale, animated: false, seeds}): the
\* canvas it leaves
RenderDitherStatic(opts, ratio) ==
    LET dpr == getDevicePixelRatio(ratio)
        sizePx == opts.size * dpr
    IN  Surface(sizePx, sizePx, opts.size,
                StaticImage(sizePx, DotScale(opts.size, opts.dotScale, dpr), opts.colors, opts.seeds))

\* ------------------------------------------------------------------------
\* SpecDither: one static renderDither on a canvas
\* ------------------------------------------------------------------------
MaxSize == 4         \* largest size option of SpecDither

DitherPalettes ==
    {<<Violet, Pink>>, <<Pink>>, <<Teal, Violet, Pink, BlackA>>, <<BlackA, BlackB>>}

DitherSeeds ==
    {<<s0, s1, Zero32, Zero32>> : s0 \in {Zero32, QuarterTurn, HalfTurn}, s1 \in {Zero32, HalfTurn}}

\* the sizes drawn in every combination: the small ones, and 17, the smallest
\* whose grid has a cell (column 9 of 17, rows 8 and 16) with t = 1/2 on the
\* threshold 32/64
DitherSizes == (1..MaxSize) \cup {17}

\* seeds[1] that are no multiple of 2^-16: 858993460 / 2^32 and
\* 4294967295 / 2^32, the first with the three-quarter turn
OddSeeds ==
    {<<ThreeQuarterTurn, Word(13107, 13108), Zero32, Zero32>>,
     <<HalfTurn, Word(65535, 65535), Zero32, Zero32>>}

\* 33 is the smallest size where the sine of the half turn moves such a cell
\* (column 17, row 32) off the threshold; at 60 the rounding of the doubles
\* puts tRaw of column 14, rows 51 and 59, above the 3/4 it is next to, and the
\* cells stay unpainted
DitherOptions ==
    [size : DitherSizes, colors : DitherPalettes, dotScale : {None, Some(1), Some(3)},
     seeds : DitherSeeds]
    \cup [size : {33}, colors : {<<Violet, Pink>>}, dotScale : {None, Some(1)},
          seeds : DitherSeeds]
    \cup [size : {60}, colors : {<<Violet, Pink>>}, dotScale : {Some(1)},
          seeds : {<<HalfTurn, Zero32, Zero32, Zero32>>}]
    \cup [size : {1, 2}, colors : {<<Violet, Pink>>}, dotScale : {Some(1)},
          seeds : OddSeeds]

notDither == <<seedVars, hasDocument, toneVars, colorVars, lifeVars, component>>

InitDither ==
    /\ IdleSeeds /\ IdleTone /\ IdleColor /\ IdleLife /\ hasDocument = TRUE
    /\ dither \in DitherOptions
    /\ devicePixelRatio \in {0, 1, 2, 4}
    /\ canvas = BlankCanvas
    /\ ditherRet = Pending

CallRenderDither ==
    /\ ~ditherRet.done
    /\ canvas' = RenderDitherStatic(dither, devicePixelRatio)
    /\ ditherRet' = Done(None)
    /\ UNCHANGED <<dither, devicePixelRatio, notDither>>

NextDither == CallRenderDither

SpecDither == InitDither /\ [][NextDither]_vars

\* the sRGB bytes of palette entry i (from 0), the last entry when i is past it
PaletteRgb(i) ==
    DitherHexToRgb(oklchToHex(dither.colors[Min(i, Len(dither.colors) - 1) + 1]))

Opaque(rgb) == <<rgb[1], rgb[2], rgb[3], 255>>

\* C7 (as amended): after a static renderDither every pixel is opaque and is
\* the sRGB encoding of palette entry 0 or of palette entry 1 (the only entry
\* of a one-colour palette), so the image holds at most two distinct colours.
C7_AtMostTwoTone ==
    ditherRet.done =>
        /\ Len(canvas.data) = canvas.width * canvas.height
        /\ canvas.width = dither.size * getDevicePixelRatio(devicePixelRatio)
        /\ Range(canvas.data) \subseteq {Opaque(PaletteRgb(0)), Opaque(PaletteRgb(1))}
        /\ Cardinality(Range(canvas.data)) \in 1..2

C7_Witness ==
    /\ ditherRet.done
    /\ dither.size = MaxSize
    /\ Cardinality(Range(canvas.data)) = 2
    /\ canvas.data[1] # canvas.data[Len(canvas.data)]

\* C7 (as stated): the image holds exactly the two colours of palette entries
\* 0 and 1.
C7_ExactlyTwoTone ==
    ditherRet.done =>
        /\ Range(canvas.data) \subseteq {Opaque(PaletteRgb(0)), Opaque(PaletteRgb(1))}
        /\ Cardinality(Range(canvas.data)) = 2

\* ------------------------------------------------------------------------
\* The frame loop of renderDither (dither.ts 118-131) and renderGradient
\* (gradient.ts 225-240), hasFilterBlur (gradient.ts 24-42) and the wrappers
\* renderHashvatar and createHashvatar (index.ts 65-125)
\* ------------------------------------------------------------------------
MaxRenders == 1      \* render calls made
MaxTime == 3         \* last timestamp of the clock, in ms
MaxCancels == 2      \* invocations of one returned handle

Canvases == 1..MaxRenders

\* a canvas element before anything is drawn on it: 300 x 150, blank
DefaultCanvas == [width |-> 300, height |-> 150, by |-> 0, phase |-> 0]

RenderSize == 64     \* the size option: `size = 64` (index.ts 68, 105)

Wrappers == {"renderHashvatar", "createHashvatar"}

\* phase units per millisecond, phase in 1/LcScale: 0.001 * SPEED (dither.ts
\* 123-125) and 0.001 * PHASE_SPEED (gradient.ts 174, 234)
PhaseRate(mode) == IF mode = "dither" THEN 55 ELSE 120

\* const colorCount = mode === 'gradient' ? 4 : 2 (index.ts 76, 112)
ColorCount(mode) == IF mode = "gradient" THEN 4 ELSE 2

\* a guard that lets a palette of three colours through
PaletteBelowThree(n) == n < 3

\* if (colors.length < 4) return null (gradient.ts 127)
PaletteTooSmall(n) == n < 4

\* a renderer that goes on to the frame loop after its static draw
StartsLoopAlways(animated) == TRUE

\* if (!animated) { draw(0); return null; } (dither.ts 118, gradient.ts
\* 225-228): the frame loop is set up only when animated
StartsLoop(animated) == animated

\* a tick that forgets the handle of the frame it requests
KeepHandle(old, id) == old

\* raf = requestAnimationFrame(tick) inside tick (dither.ts 128, gradient.ts 237)
ScheduledHandle(old, id) == id

\* cancel() on a handle that may be null: a TypeError when it is
PlainCall(cancel) == IF cancel THEN "call" ELSE "throw"

\* cancel?.() (index.ts 91, 124)
OptionalCall(cancel) == IF cancel THEN "call" ELSE "skip"

\* hasFilterBlur(): the cached answer, or the probe of the browser
hasFilterBlur(cache, capable) == IF cache.some THEN cache.val ELSE capable

\* animResScale = !useFilter && animated ? 0.5 : 1 (gradient.ts 179), in halves
AnimResScale(useFilter, animated) == IF ~useFilter /\ animated THEN 1 ELSE 2

\* the passes of boxBlurCanvas per layer: animResScale < 1 ? 2 : 3
\* (gradient.ts 179, 212), 0 when ctx.filter does the blur
BlurPasses(useFilter, animated) ==
    IF useFilter THEN 0 ELSE IF animated THEN 2 ELSE 3

\* requestAnimationFrame(tick) for render i at time t: the callback entered
\* in the browser's list
Callback(id, i, t) == [id |-> id, render |-> i, after |-> t]

\* a scheduler that ignores the request
DropRequest(list, cb) == list

\* requestAnimationFrame(tick): the callback joins the browser's list
requestAnimationFrame(list, cb) == list \cup {cb}

\* the callbacks of render i in the browser's list
PendingOf(list, i) == {cb \in list : cb.render = i}

\* what a renderer call does to canvas c: <<resized, drawn, loop, threw>>
\*   renderGradient returns before touching the canvas when the palette is
\*   too small; past that guard colors[3] of a shorter palette is undefined
\*   and oklchToHex throws (gradient.ts 153-154) after the canvas is resized;
\*   renderDither has no guard: it resizes the canvas, and colors[0] of an
\*   empty palette is undefined, so oklchToHex throws (dither.ts 42-51)
RendererPath(mode, animated, ncolors) ==
    IF mode = "gradient" /\ PaletteTooSmall(ncolors)
    THEN [resized |-> FALSE, drawn |-> FALSE, loop |-> FALSE, threw |-> FALSE]
    ELSE IF (mode = "gradient" /\ ncolors < 4) \/ (mode = "dither" /\ ncolors = 0)
    THEN [resized |-> TRUE, drawn |-> FALSE, loop |-> FALSE, threw |-> TRUE]
    ELSE [resized |-> TRUE, drawn |-> ~animated, loop |-> StartsLoop(animated),
          threw |-> FALSE]

\* the state the render calls and the browser share
Life ==
    [renders |-> renders, callbacks |-> callbacks, nextRaf |-> nextRaf,
     surfaces |-> surfaces, filterSupported |-> filterSupported, fault |-> fault]

\* the next state takes the shared state from st
SetLife(st) ==
    /\ renders' = st.renders
    /\ callbacks' = st.callbacks
    /\ nextRaf' = st.nextRaf
    /\ surfaces' = st.surfaces
    /\ filterSupported' = st.filterSupported
    /\ fault' = st.fault

\* the shared state after one call of renderDither or renderGradient,
\* directly or from a wrapper, made in state st
AfterRender(st, api, mode, c, animated, ncolors, size) ==
    LET i == Len(st.renders) + 1
        path == RendererPath(mode, animated, ncolors)
        probes == mode = "gradient" /\ path.resized /\ ~path.threw
        useFilter == probes /\ hasFilterBlur(st.filterSupported, filterCapable)
        sizePx == size * getDevicePixelRatio(devicePixelRatio)
    IN  [renders |-> Append(st.renders,
              [api |-> api, mode |-> mode, animated |-> animated, ncolors |-> ncolors,
               surface |-> c,
               threw |-> path.threw,
               \* what the renderer returned: a function (TRUE) or null
               cancel |-> path.loop,
               \* what the call returned to its caller: a function or null
               returnsFn |-> ~path.threw /\ (api \in Wrappers \/ path.loop),
               raf |-> IF path.loop THEN st.nextRaf ELSE 0,
               phase |-> 0, lastTime |-> 0, frames |-> 0,
               log |-> IF path.drawn THEN <<[at |-> now, phase |-> 0, pending |-> 0]>>
                       ELSE <<>>,
               \* the constants draw blurs every layer of every frame with
               useFilter |-> useFilter,
               resScale |-> AnimResScale(useFilter, animated),
               passes |-> BlurPasses(useFilter, animated),
               cancels |-> 0]),
         surfaces |->
              IF ~path.resized THEN st.surfaces
              ELSE [st.surfaces EXCEPT ![c] =
                      [width |-> sizePx, height |-> sizePx,
                       by |-> IF path.drawn THEN i ELSE 0, phase |-> 0]],
         filterSupported |-> IF probes THEN Some(useFilter) ELSE st.filterSupported,
         callbacks |-> IF path.loop
                       THEN requestAnimationFrame(st.callbacks, Callback(st.nextRaf, i, now))
                       ELSE st.callbacks,
         nextRaf |-> IF path.loop THEN st.nextRaf + 1 ELSE st.nextRaf,
         fault |-> (st.fault \/ path.threw)]

\* one call of renderDither or renderGradient, directly or from a wrapper
Render(api, mode, c, animated, ncolors) ==
    /\ Len(renders) < MaxRenders
    /\ SetLife(AfterRender(Life, api, mode, c, animated, ncolors, RenderSize))
    /\ UNCHANGED <<now, filterCapable>>

\* renderDither(canvas, {size, colors, animated, seeds}) called directly
CallDither(c, animated, ncolors) ==
    /\ Render("renderDither", "dither", c, animated, ncolors)
    /\ UNCHANGED notLife

\* renderGradient(canvas, {size, colors, animated, seeds}) called directly
CallGradient(c, animated, ncolors) ==
    /\ Render("renderGradient", "gradient", c, animated, ncolors)
    /\ UNCHANGED notLife

\* renderHashvatar(canvas, {hash, mode, animated})
RenderHashvatar(c, mode, animated) ==
    /\ Render("renderHashvatar", mode, c, animated, ColorCount(mode))
    /\ UNCHANGED notLife

\* createHashvatar({hash, mode, animated}): the canvas is a new element
CreateHashvatar(c, mode, animated) ==
    /\ surfaces[c] = DefaultCanvas
    /\ \A i \in 1..Len(renders) : renders[i].surface # c
    /\ Render("createHashvatar", mode, c, animated, ColorCount(mode))
    /\ UNCHANGED notLife

\* the clock moves on to the timestamp of a later frame
AdvanceClock(t) ==
    /\ t > now /\ t <= MaxTime
    /\ now' = t
    /\ UNCHANGED <<renders, callbacks, nextRaf, surfaces, filterSupported,
                   filterCapable, fault, notLife>>

\* tick(t) of the render that requested callback cb (dither.ts 124-129,
\* gradient.ts 233-238):
\*   if (lastTime) phase += (now - lastTime) * 0.001 * PHASE_SPEED;
\*   lastTime = now; draw(phase); raf = requestAnimationFrame(tick);
TickAt(cb, t) ==
    LET i == cb.render
        r == renders[i]
        phase == IF r.lastTime # 0 THEN r.phase + (t - r.lastTime) * PhaseRate(r.mode)
                 ELSE r.phase
    IN  /\ renders' = [renders EXCEPT ![i] =
              [r EXCEPT !.phase = phase, !.lastTime = t, !.frames = r.frames + 1,
                        \* draw(phase) runs before the next frame is requested
                        !.log = Append(r.log, [at |-> t, phase |-> phase,
                            pending |-> Cardinality(PendingOf(callbacks \ {cb}, i))]),
                        !.raf = ScheduledHandle(r.raf, nextRaf)]]
        /\ surfaces' = [surfaces EXCEPT ![r.surface] = [@ EXCEPT !.by = i, !.phase = phase]]
        /\ callbacks' = requestAnimationFrame(callbacks \ {cb}, Callback(nextRaf, i, t))
        /\ nextRaf' = nextRaf + 1
        /\ UNCHANGED <<filterSupported, filterCapable, fault, notLife>>

\* the browser runs one callback of its list at the frame after the one it
\* was requested in
Tick(cb) ==
    /\ cb \in callbacks
    /\ cb.after < now
    /\ TickAt(cb, now)
    /\ UNCHANGED now

\* a cancellation that empties the browser's list
CancelEvery(list, id) == {}

\* cancelAnimationFrame(id)
Cancelled(list, id) == {cb \in list : cb.id # id}

\* the caller invokes the function renderDither or renderGradient returned:
\* () => cancelAnimationFrame(raf)
InvokeCancel(i) ==
    /\ i \in 1..Len(renders)
    /\ renders[i].api \notin Wrappers
    /\ renders[i].cancel
    /\ renders[i].cancels < MaxCancels
    /\ renders' = [renders EXCEPT ![i].cancels = @ + 1]
    /\ callbacks' = Cancelled(callbacks, renders[i].raf)
    /\ UNCHANGED <<nextRaf, now, surfaces, filterSupported, filterCapable, fault, notLife>>

\* the shared state after destroy of render i, the function a wrapper
\* returned, is invoked in state st: () => cancel?.()
AfterDestroy(st, i) ==
    LET outcome == OptionalCall(st.renders[i].cancel)
    IN  [st EXCEPT !.renders[i].cancels = @ + 1,
                   !.callbacks = IF outcome = "call"
                                 THEN Cancelled(st.callbacks, st.renders[i].raf)
                                 ELSE st.callbacks,
                   !.fault = (st.fault \/ outcome = "throw")]

\* the caller invokes destroy
Destroy(i) ==
    /\ i \in 1..Len(renders)
    /\ renders[i].api \in Wrappers
    /\ renders[i].cancels < MaxCancels
    /\ SetLife(AfterDestroy(Life, i))
    /\ UNCHANGED <<now, filterCapable, notLife>>

Init ==
    /\ IdleSeeds /\ IdleTone /\ IdleColor /\ IdleDither /\ hasDocument = TRUE
    /\ renders = <<>>
    /\ callbacks = {}
    /\ nextRaf = 1
    /\ now = 0
    /\ surfaces = [c \in Canvases |-> DefaultCanvas]
    /\ filterSupported = None
    /\ filterCapable \in BOOLEAN
    /\ fault = FALSE
    /\ component = NoComponent

Next ==
    \/ \E c \in Canvases, animated \in BOOLEAN, ncolors \in 0..2 : CallDither(c, animated, ncolors)
    \/ \E c \in Canvases, animated \in BOOLEAN, ncolors \in 3..4 : CallGradient(c, animated, ncolors)
    \/ \E c \in Canvases, mode \in {"dither", "gradient"}, animated \in BOOLEAN :
          RenderHashvatar(c, mode, animated)
    \/ \E c \in Canvases, mode \in {"dither", "gradient"}, animated \in BOOLEAN :
          CreateHashvatar(c, mode, animated)
    \/ \E t \in 1..MaxTime : AdvanceClock(t)
    \/ \E cb \in callbacks : Tick(cb)
    \/ \E i \in 1..MaxRenders : InvokeCancel(i)
    \/ \E i \in 1..MaxRenders : Destroy(i)

Spec == Init /\ [][Next]_vars

\* a renderer call with a valid palette: one that got past renderGradient's
\* palette guard, or a renderDither with a colour to draw
Started(r) == ~(r.mode = "gradient" /\ r.ncolors < 4) /\ ~(r.mode = "dither" /\ r.ncolors = 0)

\* the step is a render call, and it made render Len(renders) + 1
RenderStep == Len(renders') = Len(renders) + 1

\* the step is an invocation of the function render i returned
HandleStep(i) ==
    /\ Len(renders') = Len(renders)
    /\ renders'[i].cancels = renders[i].cancels + 1

\* C1: an animated render returns a function; once that function has been
\* invoked, the browser's list holds no callback of the render, and no later
\* step runs a frame of it: no draw is added and no frame is requested.
C1_CancelStopsFrames ==
    /\ [](\A i \in 1..Len(renders) :
            /\ (renders[i].animated /\ Started(renders[i])) => renders[i].returnsFn
            /\ renders[i].cancels > 0 => \A cb \in callbacks : cb.render # i)
    /\ [][\A i \in 1..Len(renders) :
            renders[i].cancels > 0 =>
                /\ renders'[i].log = renders[i].log
                /\ renders'[i].frames = renders[i].frames
                /\ renders'[i].raf = renders[i].raf]_vars

C1_Witness ==
    \E i \in 1..Len(renders) :
        /\ renders[i].animated /\ renders[i].returnsFn
        /\ renders[i].cancels > 0
        /\ renders[i].frames > 0
        /\ now > renders[i].lastTime
        /\ callbacks = {}

\* C2: destroy never throws, and a destroy that follows an earlier destroy of
\* the same render, or a render whose renderer returned null, changes nothing:
\* the callback list, the canvases and the next frame handle stay as they are.
C2_DestroyIdempotent ==
    [][\A i \in 1..Len(renders) :
        (HandleStep(i) /\ renders[i].api \in Wrappers) =>
            /\ fault' = fault
            /\ (renders[i].cancels > 0 \/ ~renders[i].cancel) =>
                  /\ callbacks' = callbacks
                  /\ surfaces' = surfaces
                  /\ nextRaf' = nextRaf
                  /\ renders' = [renders EXCEPT ![i].cancels = @ + 1]]_vars

C2_Witness ==
    /\ ~fault
    /\ \E i \in 1..Len(renders) :
        /\ renders[i].api \in Wrappers
        /\ ~renders[i].animated /\ ~renders[i].cancel
        /\ renders[i].cancels = MaxCancels
        /\ surfaces[renders[i].surface].by = i

\* C6: renderGradient with fewer than 4 colours returns null and does
\* nothing: it does not throw, draws nothing, leaves every canvas as it was
\* and requests no frame, animated or not.
C6_SmallPaletteNoOp ==
    [][(RenderStep /\ renders'[Len(renders')].mode = "gradient"
                   /\ renders'[Len(renders')].ncolors < 4) =>
            /\ ~renders'[Len(renders')].cancel
            /\ ~renders'[Len(renders')].threw
            /\ renders'[Len(renders')].api = "renderGradient"
                  => ~renders'[Len(renders')].returnsFn
            /\ renders'[Len(renders')].log = <<>>
            /\ surfaces' = surfaces
            /\ callbacks' = callbacks
            /\ nextRaf' = nextRaf
            /\ fault' = fault]_vars

C6_Witness ==
    \E i \in 1..Len(renders) :
        /\ renders[i].api = "renderGradient"
        /\ renders[i].ncolors = 3
        /\ renders[i].animated
        /\ now > 0

\* C10: a renderer called with animated = false and a valid palette draws
\* once, at phase 0, before it returns, requests no frame and returns null;
\* no frame of that render runs later.
C10_StaticDrawsOnce ==
    /\ [](\A i \in 1..Len(renders) :
            (~renders[i].animated /\ Started(renders[i])) =>
                /\ Len(renders[i].log) = 1
                /\ renders[i].log[1].phase = 0
                /\ renders[i].frames = 0
                /\ ~renders[i].cancel
                /\ renders[i].api \notin Wrappers => ~renders[i].returnsFn
                /\ \A cb \in callbacks : cb.render # i)
    /\ [][(RenderStep /\ ~renders'[Len(renders')].animated /\ Started(renders'[Len(renders')])) =>
            /\ callbacks' = callbacks
            /\ nextRaf' = nextRaf
            /\ surfaces'[renders'[Len(renders')].surface].by = Len(renders')
            /\ surfaces'[renders'[Len(renders')].surface].phase = 0]_vars

C10_Witness ==
    \E i \in 1..Len(renders) :
        /\ ~renders[i].animated
        /\ renders[i].mode = "gradient" /\ renders[i].api = "renderGradient"
        /\ Len(renders[i].log) = 1
        /\ now > renders[i].log[1].at

\* ------------------------------------------------------------------------
\* The React binding: Hashvatar (Hashvatar.tsx 18-43).  React commits a render
\* of the component, and later flushes its effects: the cleanup the last run
\* of the effect returned, then the effect when a dependency differs.
\* ------------------------------------------------------------------------
MaxCommits == 3      \* renders of the component that React commits

\* option values: dotScale and tones are <<>> when absent, <<v>> when given
ReactHashes == {<<"a">>, <<"b">>}
ReactSizes == {RenderSize, 32}
ReactDotScales == {<<>>, <<2>>}
ReactTones ==
    {<<>>, << << <<"r", "e", "d">> >> >>,
     << << <<"a">>, <<"b">> >> >>, << << <<"a", "\"", ",", "\"", "b">> >> >>}

\* the props of the first render: any mode, animated or not
MountProps ==
    {[hash |-> <<"a">>, size |-> RenderSize, mode |-> m, animated |-> a,
      dotScale |-> <<>>, tones |-> <<>>] : m \in {"dither", "gradient"}, a \in BOOLEAN}

\* the props of a later render: one option differs, or none does
NextProps(p) ==
    {p} \cup {[p EXCEPT !.hash = h] : h \in ReactHashes}
        \cup {[p EXCEPT !.size = z] : z \in ReactSizes}
        \cup {[p EXCEPT !.mode = m] : m \in {"dither", "gradient"}}
        \cup {[p EXCEPT !.animated = a] : a \in BOOLEAN}
        \cup {[p EXCEPT !.dotScale = d] : d \in ReactDotScales}
        \cup {[p EXCEPT !.tones = t] : t \in ReactTones}

\* QuoteJSONString on one character: the quote, the backslash and the control
\* characters are escaped (of the characters of the model, TAB and LF)
JSONChar(c) ==
    IF c = "\"" THEN <<"\\", "\"">>
    ELSE IF c = "\\" THEN <<"\\", "\\">>
    ELSE IF c = "TAB" THEN <<"\\", "t">>
    ELSE IF c = "LF" THEN <<"\\", "n">>
    ELSE <<c>>

RECURSIVE JSONEscape(_)
JSONEscape(str) ==
    IF str = <<>> THEN <<>> ELSE JSONChar(Head(str)) \o JSONEscape(Tail(str))

RECURSIVE JoinQuoted(_)
\* the elements of a list of strings, escaped, quoted and separated by commas
JoinQuoted(list) ==
    IF list = <<>> THEN <<>>
    ELSE <<"\"">> \o JSONEscape(Head(list)) \o <<"\"">>
         \o (IF Len(list) > 1 THEN <<",">> ELSE <<>>) \o JoinQuoted(Tail(list))

\* JSON.stringify(options.tones): undefined for an absent list
JSONstringify(list) ==
    IF list = <<>> THEN <<>> ELSE << <<"[">> \o JoinQuoted(list[1]) \o <<"]">> >>

\* the dependency list of the effect (Hashvatar.tsx 27-34)
Deps(p) == <<p.hash, p.size, p.mode, p.animated, p.dotScale, JSONstringify(p.tones)>>

\* an effect that returns nothing to clean up
NoCleanup(destroy) == None

\* return destroy (Hashvatar.tsx 24): the cleanup of this run of the effect
EffectCleanup(destroy) == Some(destroy)

\* React commits the first render of the component: the effect is to run
Mount(p) ==
    /\ component.stage = "none"
    /\ component' = [component EXCEPT !.stage = "mounted", !.props = p,
                                      !.pending = "effect", !.commits = 1]
    /\ UNCHANGED <<seedVars, hasDocument, toneVars, colorVars, ditherVars, lifeVars>>

\* React commits a later render: the effect is to run again when a
\* dependency differs from the one of its last run
Update(p) ==
    /\ component.stage = "mounted"
    /\ component.pending = "none"
    /\ component.commits < MaxCommits
    /\ component' = [component EXCEPT
            !.props = p,
            !.pending = IF Deps(p) # component.deps THEN "effect" ELSE "none",
            !.commits = @ + 1]
    /\ UNCHANGED <<seedVars, hasDocument, toneVars, colorVars, ditherVars, lifeVars>>

\* React removes the component: the cleanup is to run
Unmount ==
    /\ component.stage = "mounted"
    /\ component.pending = "none"
    /\ component' = [component EXCEPT !.stage = "unmounted", !.pending = "cleanup"]
    /\ UNCHANGED <<seedVars, hasDocument, toneVars, colorVars, ditherVars, lifeVars>>

\* the shared state after the cleanup of the last run of the effect, if any
AfterCleanup(st) ==
    IF component.cleanup.some THEN AfterDestroy(st, component.cleanup.val) ELSE st

\* React flushes the effects of the last commit: the cleanup of the previous
\* run, then, unless the component is gone, the effect (Hashvatar.tsx 21-25):
\*   const destroy = renderHashvatar(ref.current, options); return destroy
FlushEffects ==
    /\ component.pending # "none"
    /\ IF component.pending = "cleanup"
       THEN /\ SetLife(AfterCleanup(Life))
            /\ component' = [component EXCEPT !.pending = "none", !.cleanup = None]
       ELSE LET p == component.props
                st == AfterCleanup(Life)
            IN  /\ SetLife(AfterRender(st, "renderHashvatar", p.mode, 1, p.animated,
                                       ColorCount(p.mode), p.size))
                /\ component' = [component EXCEPT
                        !.pending = "none",
                        !.deps = Deps(p),
                        !.cleanup = EffectCleanup(Len(st.renders) + 1)]
    /\ UNCHANGED <<now, filterCapable, seedVars, hasDocument, toneVars, colorVars,
                   ditherVars>>

InitReact == Init

NextReact ==
    \/ \E p \in MountProps : Mount(p)
    \/ \E p \in NextProps(component.props) : Update(p)
    \/ Unmount
    \/ FlushEffects
    \/ \E t \in 1..MaxTime : AdvanceClock(t)
    \/ \E cb \in callbacks : Tick(cb)

SpecReact == InitReact /\ [][NextReact]_vars

\* the renders whose frame loop is live: a callback of theirs is pending
LiveLoops == {cb.render : cb \in callbacks}

\* C11: every render the component made before its latest one has had its
\* destroy invoked (and so has the latest one once the component is gone),
\* and at most one frame loop is live on the canvas: the one of the latest
\* render.
C11_OneLoopPerComponent ==
    /\ \A i \in 1..Len(renders) :
          (i < Len(renders) \/ (component.stage = "unmounted" /\ component.pending = "none"))
              => renders[i].cancels > 0
    /\ Cardinality(callbacks) <= 1
    /\ LiveLoops \subseteq {Len(renders)}
    /\ \A i \in LiveLoops : renders[i].cancels = 0 /\ component.cleanup = Some(i)

C11_Witness ==
    /\ Len(renders) = 3
    /\ renders[1].animated /\ renders[1].frames > 0
    /\ renders[2].animated /\ renders[2].frames > 0
    /\ renders[3].animated /\ renders[3].frames > 0
    /\ component.stage = "unmounted" /\ component.pending = "none"
    /\ callbacks = {}

\* C12: while the function an animated render returned has not been invoked,
\* exactly one callback of the render is in the browser's list, the one whose
\* handle the render holds; every frame was drawn while no callback of the
\* render was pending, at a time no earlier than the frame before it.
C12_OneFramePending ==
    \A i \in 1..Len(renders) :
        /\ (renders[i].cancel /\ renders[i].cancels = 0) =>
              /\ Cardinality(PendingOf(callbacks, i)) = 1
              /\ \A cb \in PendingOf(callbacks, i) : cb.id = renders[i].raf
        /\ Cardinality(PendingOf(callbacks, i)) <= 1
        /\ \A k \in 1..Len(renders[i].log) :
              /\ renders[i].log[k].pending = 0
              /\ k > 1 => renders[i].log[k - 1].at <= renders[i].log[k].at
        /\ renders[i].cancel => Len(renders[i].log) = renders[i].frames

C12_Witness ==
    \E i \in 1..Len(renders) :
        /\ renders[i].cancel /\ renders[i].cancels = 0
        /\ renders[i].frames >= 2
        /\ now = MaxTime
        /\ Cardinality(PendingOf(callbacks, i)) = 1

\* ------------------------------------------------------------------------
\* The phase of an animated render as a function of the timestamps the
\* scheduler hands to tick: any non-decreasing sequence, 0 included
\* ------------------------------------------------------------------------
MaxStamp == 3        \* last timestamp delivered, in ms
MaxFrames == 3       \* frames delivered to one render

\* the scheduler runs callback cb with timestamp t
DeliverFrame(cb, t) ==
    /\ cb \in callbacks
    /\ t >= now
    /\ renders[cb.render].frames < MaxFrames
    /\ now' = t
    /\ TickAt(cb, t)

NextPhase ==
    \/ \E mode \in {"dither", "gradient"} : RenderHashvatar(1, mode, TRUE)
    \/ \E cb \in callbacks, t \in 0..MaxStamp : DeliverFrame(cb, t)
    \/ \E i \in 1..MaxRenders : Destroy(i)

SpecPhase == Init /\ [][NextPhase]_vars

\* the frames of render i drawn by tick
Frames(i) == 1..Len(renders[i].log)

\* C13: frame k of an animated gradient render is drawn with phase
\* (tk - t1) * 0.001 * 1.2, the first frame with phase 0, and the phase of a
\* frame is never below the phase of the frame before it.
C13_PhaseFollowsClock ==
    \A i \in 1..Len(renders) :
        (renders[i].mode = "gradient" /\ renders[i].cancel) =>
            \A k \in Frames(i) :
                /\ renders[i].log[k].phase =
                      (renders[i].log[k].at - renders[i].log[1].at) * PhaseRate("gradient")
                /\ k > 1 => renders[i].log[k - 1].phase <= renders[i].log[k].phase

\* the part of C13 that holds whatever the timestamps: phase 0 at the first
\* frame, and a phase that never decreases
C13_PhaseMonotone ==
    \A i \in 1..Len(renders) :
        (renders[i].mode = "gradient" /\ renders[i].cancel) =>
            \A k \in Frames(i) :
                /\ k = 1 => renders[i].log[k].phase = 0
                /\ k > 1 => renders[i].log[k - 1].phase <= renders[i].log[k].phase

\* ------------------------------------------------------------------------
\* SpecHash: fnv1a (dither.ts 135-142) called on a string, against 32-bit
\* FNV-1a computed in exact integer arithmetic
\* ------------------------------------------------------------------------
HashChars == {"a", "b", "s", "S", "1", " ", "U+017F"}

InitHash ==
    /\ hasDocument = FALSE /\ IdleTone /\ IdleColor /\ IdleDither /\ IdleLife
    /\ input \in StringsUpTo(HashChars, MaxLen)
    /\ variant = <<>> /\ edits = <<>> /\ count = 0
    /\ rngS = None
    /\ calls = [c \in CallSites |-> Pending]
    /\ digest = Pending

\* one call fnv1a(input)
CallFnv1a ==
    /\ ~digest.done
    /\ digest' = Done(fnv1a(input))
    /\ UNCHANGED <<input, variant, edits, count, rngS, calls, hasDocument, toneVars,
                   colorVars, ditherVars, lifeVars, component>>

NextHash == CallFnv1a

SpecHash == InitHash /\ [][NextHash]_vars

\* the low 32 bits of the exact product m * 0x01000193 (= m * 2^24 + m * 403)
\* for a word m, 0 <= m < 2^32
ExactLow32(m) ==
    Word(((m.lo * 403) \div W16 + m.hi * 403 + m.lo * 256) % W16, (m.lo * 403) % W16)

RECURSIVE ReferenceLoop(_, _, _)
\* 32-bit FNV-1a: h = ((h XOR c) * 0x01000193) mod 2^32
ReferenceLoop(h, str, i) ==
    IF i > Len(str) THEN h
    ELSE With(ToUint32(Xor32(h, Word(0, charCodeAt(str[i])))),
              LAMBDA x : ReferenceLoop(ExactLow32(x), str, i + 1))

ReferenceFnv1a(str) == ReferenceLoop(FnvOffset, str, 1)

\* C14: fnv1a(str) is the 32-bit FNV-1a hash of str, an integer in [0, 2^32).
C14_MatchesReference ==
    digest.done =>
        /\ digest.val = ReferenceFnv1a(input)
        /\ digest.val.hi \in 0..(W16 - 1) /\ digest.val.lo \in 0..(W16 - 1)

\* the part of C14 that holds: the result is an integer in [0, 2^32), and it
\* is the FNV-1a hash whenever no product exceeded 2^53
C14_IsUint32 ==
    digest.done => (digest.val.hi \in 0..(W16 - 1) /\ digest.val.lo \in 0..(W16 - 1))

\* ------------------------------------------------------------------------
\* The threshold test of the dither renderer (SpecDither)
\* ------------------------------------------------------------------------
\* the grid of the render in hand: its cell size in pixels and its number of
\* visible cells per row
GridOf(opts, ratio) ==
    LET dpr == getDevicePixelRatio(ratio)
        dotScale == DotScale(opts.size, opts.dotScale, dpr)
    IN  [dotScale |-> dotScale, cells |-> CeilDiv(opts.size * dpr, dotScale)]

\* C15: a pixel of a static dither shows palette entry 0 exactly when the
\* eased value t of its cell is strictly below the Bayer threshold of the
\* cell, and palette entry 1 otherwise, t equal to the threshold included.
C15_AccentIffBelow ==
    ditherRet.done =>
        LET grid == GridOf(dither, devicePixelRatio)
        IN  With(<<CellSides(grid.cells, dither.seeds),
                   <<Opaque(PaletteRgb(0)), Opaque(PaletteRgb(1))>>>>,
                 LAMBDA v :
                    \A i \in 1..Len(canvas.data) :
                        LET gx == (((i - 1) % canvas.width) \div grid.dotScale) + 1
                            gy == (((i - 1) \div canvas.width) \div grid.dotScale) + 1
                            below == v[1][<<gx, gy>>] < 0
                        IN  canvas.data[i] = v[2][IF below THEN 1 ELSE 2])

\* what the code does: palette entry 0 exactly when t is at most the
\* threshold
C15_AccentIffNotAbove ==
    ditherRet.done =>
        LET grid == GridOf(dither, devicePixelRatio)
        IN  With(<<CellSides(grid.cells, dither.seeds),
                   <<Opaque(PaletteRgb(0)), Opaque(PaletteRgb(1))>>>>,
                 LAMBDA v :
                    \A i \in 1..Len(canvas.data) :
                        LET gx == (((i - 1) % canvas.width) \div grid.dotScale) + 1
                            gy == (((i - 1) \div canvas.width) \div grid.dotScale) + 1
                            above == v[1][<<gx, gy>>] > 0
                        IN  canvas.data[i] = v[2][IF above THEN 2 ELSE 1])

\* ------------------------------------------------------------------------
\* The blur of the gradient layers (Spec)
\* ------------------------------------------------------------------------
\* a gradient render that reached hasFilterBlur and set up its layers
Blurs(r) == r.mode = "gradient" /\ r.ncolors >= 4

\* C16: when ctx.filter does not blur, every layer of every gradient frame is
\* blurred by a box blur of 3 passes, animated or not, and the layers are at
\* half resolution exactly when the render is animated.
C16_AlwaysThreePasses ==
    \A i \in 1..Len(renders) :
        (Blurs(renders[i]) /\ ~renders[i].useFilter) =>
            /\ renders[i].passes = 3
            /\ renders[i].resScale = IF renders[i].animated THEN 1 ELSE 2

\* what the code does (gradient.ts 179, 212): on the fallback path a static
\* render blurs with 3 passes at full resolution and an animated one with 2
\* passes at half resolution; when ctx.filter blurs, no box blur runs and the
\* layers are at full resolution
C16_FallbackBlur ==
    \A i \in 1..Len(renders) :
        Blurs(renders[i]) =>
            /\ filterSupported.some /\ filterSupported.val = renders[i].useFilter
            /\ ~renders[i].useFilter =>
                  /\ renders[i].passes = IF renders[i].animated THEN 2 ELSE 3
                  /\ renders[i].resScale = IF renders[i].animated THEN 1 ELSE 2
            /\ renders[i].useFilter =>
                  /\ renders[i].passes = 0
                  /\ renders[i].resScale = 2

\* ------------------------------------------------------------------------
\* Malformed colour literals (SpecTone)
\* ------------------------------------------------------------------------
\* a number written in digits with at most one point
IsNumeral(s) ==
    /\ \E i \in 1..Len(s) : IsDigit(s[i])
    /\ \A i \in 1..Len(s) : IsDigit(s[i]) \/ s[i] = "."
    /\ Cardinality({i \in 1..Len(s) : s[i] = "."}) <= 1

\* '#' followed by exactly 3 or 6 hexadecimal digits
WellFormedHash(t) == Len(t) \in {4, 7} /\ \A i \in 2..Len(t) : IsHexChar(t[i])

\* a literal that opens with oklch(
OklchLiteral(t) == Len(t) >= 6 /\ toLowerCase(SubSeq(t, 1, 6)) = OklchWord

\* oklch( followed by exactly three numbers, the first possibly a percentage
WellFormedOklch(t) ==
    LET m == OklchMatchAt(t, 1)
        first == IF m.val[1][Len(m.val[1])] = "%"
                 THEN SubSeq(m.val[1], 1, Len(m.val[1]) - 1) ELSE m.val[1]
    IN  m.some /\ IsNumeral(first) /\ IsNumeral(m.val[2]) /\ IsNumeral(m.val[3])

\* a colour literal of wrong arity or format
Malformed(t) ==
    \/ startsWith(t, "#") /\ ~WellFormedHash(t)
    \/ OklchLiteral(t) /\ ~WellFormedOklch(t)

\* C17: parseTone returns none for every '#' token whose body is not exactly
\* 3 or 6 hexadecimal digits and for every oklch(...) literal that does not
\* hold exactly three numbers.
C17_MalformedIsNone ==
    /\ (bare.done /\ Malformed(trim(token))) => ~bare.val.some
    /\ (prefixed.done /\ Malformed(<<"#">> \o trim(token))) => ~prefixed.val.some

\* the part of C17 that holds: an oklch(...) literal with fewer or more than
\* three components is rejected
C17_WrongArityOklchIsNone ==
    (bare.done /\ OklchLiteral(trim(token)) /\ ~OklchMatchAt(trim(token), 1).some)
        => ~bare.val.some

\* ------------------------------------------------------------------------
\* SpecPair: two animated renders, each on a canvas of its own, their frames
\* and their cancellations interleaved
\* ------------------------------------------------------------------------
PairCanvases == {1, 2}

InitPair ==
    /\ IdleSeeds /\ IdleTone /\ IdleColor /\ IdleDither /\ hasDocument = TRUE
    /\ renders = <<>>
    /\ callbacks = {}
    /\ nextRaf = 1
    /\ now = 0
    /\ surfaces = [c \in PairCanvases |-> DefaultCanvas]
    /\ filterSupported = None
    /\ filterCapable \in BOOLEAN
    /\ fault = FALSE
    /\ component = NoComponent

\* renderDither or renderGradient, animated, on a canvas no render has used
StartAnimated(c, mode) ==
    /\ \A i \in 1..Len(renders) : renders[i].surface # c
    /\ SetLife(AfterRender(Life, IF mode = "dither" THEN "renderDither" ELSE "renderGradient",
                           mode, c, TRUE, ColorCount(mode), RenderSize))
    /\ UNCHANGED <<now, filterCapable, notLife>>

NextPair ==
    \/ \E c \in PairCanvases, mode \in {"dither", "gradient"} : StartAnimated(c, mode)
    \/ \E t \in 1..MaxTime : AdvanceClock(t)
    \/ \E cb \in callbacks : Tick(cb)
    \/ \E i \in PairCanvases : InvokeCancel(i)

SpecPair == InitPair /\ [][NextPair]_vars

\* what belongs to render i: its closure state, its pending frames and its
\* canvas
Own(i, rs, cbs, ss) == <<rs[i], PendingOf(cbs, i), ss[rs[i].surface]>>

\* C18: a step that changes one render (a frame of it, a cancellation of it)
\* or starts a new one leaves every other render's phase, last timestamp,
\* frame handle, pending frame and canvas as they were; a render that has not
\* been cancelled keeps its one pending frame whatever happens to the other;
\* and _filterSupported, once set, never changes.
C18_RendersIndependent ==
    /\ [](\A i \in 1..Len(renders) :
            renders[i].cancels = 0 => Cardinality(PendingOf(callbacks, i)) = 1)
    /\ [][\A i \in 1..Len(renders) :
            (\/ Len(renders') > Len(renders)
             \/ \E j \in 1..Len(renders) : j # i /\ renders'[j] # renders[j])
                => Own(i, renders', callbacks', surfaces') = Own(i, renders, callbacks, surfaces)]_vars
    /\ [][filterSupported.some => filterSupported' = filterSupported]_vars

C18_Witness ==
    /\ Len(renders) = 2
    /\ renders[1].mode = "gradient" /\ renders[2].mode = "gradient"
    /\ renders[1].cancels > 0 /\ renders[1].frames > 0
    /\ renders[2].cancels = 0 /\ renders[2].frames > 1
    /\ renders[2].lastTime > renders[1].lastTime
    /\ renders[2].phase # renders[1].phase
    /\ Cardinality(PendingOf(callbacks, 2)) = 1

====
